---- MODULE Spec2Model ----
(***************************************************************************)
(* A model of the analyser manager (src/index.js) and its npm extractor    *)
(* (src/extractors/npmExtractor.js).                                       *)
(*                                                                         *)
(* Two callers issue calls on one AnalyserManager instance.  Every public  *)
(* operation is a chain of promise handlers; each action below is one      *)
(* handler: it consumes the outcome of the I/O request the call is waiting *)
(* on (pc), performs the handler's synchronous code and issues the next    *)
(* request.  The outcome of a request is drawn, when the handler runs,     *)
(* from what the environment (network, file system, install hook) can      *)
(* answer.                                                                 *)
(***************************************************************************)
EXTENDS Naturals, Sequences, FiniteSets, TLC

VARIABLES
    call,            \* per caller: the call in progress or last completed
    ALL_ANALYSERS,   \* self.ALL_ANALYSERS: Null or the revision of the list held
    dirs,            \* ANALYSER_INSTALL_DIR: directory name -> content
    npmLatest,       \* the package registry's dist-tags.latest
    observed,        \* events seen on the manager: <<event, analyser>> -> count
    started,         \* number of calls issued so far
    lastList,        \* result of the list fetch that succeeded last (Null: none)
    root             \* the directory ANALYSER_INSTALL_DIR itself

vars ==
    <<call, ALL_ANALYSERS, dirs, npmLatest, observed, started, lastList, root>>

(***************************************************************************)
(* Bounds and the small sets inputs are drawn from.                        *)
(***************************************************************************)
MaxCalls == 2

Callers == {"a", "b"}

Null == 0

\* Revisions of the central analyser list.  The primary URL is a CDN in front
\* of the repository the fallback URL reads: the CDN answers with the revision
\* it has cached, the repository with the current one.
ListRevs == {1, 2}

\* "sidekick-david" and "sidekick-eslint" are in every revision of the list,
\* "rubbish-subbish-analyser" is in none.
Names == {"sidekick-david", "sidekick-eslint", "rubbish-subbish-analyser"}

KnownNames == {"sidekick-david", "sidekick-eslint"}

\* Versions the package registry has published, oldest first.
Published == <<"1.0.3", "1.0.5">>

\* Version arguments; "none" stands for an absent version.
VersionArgs == {"none", "latest", "1.0.3", "1.0.5", "garbage"}

\* The directories an install can name: {name}@{version}.
DirNames == Names \X {"1.0.3", "1.0.5", "latest"}

EventTypes == {"downloading", "downloaded", "installing", "installed"}

(***************************************************************************)
(* Values.                                                                 *)
(***************************************************************************)
\* semver.valid: the version strings that parse as semantic versions.
semver_valid(v) == v \in {"1.0.3", "1.0.5", "1.9.0", "1.10.0"}

\* The version as semver parses it (major, minor, patch).
semver_parse(v) ==
    CASE v = "1.0.3" -> <<1, 0, 3>>
      [] v = "1.0.5" -> <<1, 0, 5>>
      [] v = "1.9.0" -> <<1, 9, 0>>
      [] v = "1.10.0" -> <<1, 10, 0>>
      [] OTHER -> <<>>

\* A comparison that counts equal versions as older.
semver_lte(v, w) == semver_parse(v) = semver_parse(w) \/
    LET a == semver_parse(v)
        b == semver_parse(w)
    IN  \/ a[1] < b[1]
        \/ a[1] = b[1] /\ a[2] < b[2]
        \/ a[1] = b[1] /\ a[2] = b[2] /\ a[3] < b[3]

\* semver.lt on two valid versions.
semver_lt(v, w) ==
    LET a == semver_parse(v)
        b == semver_parse(w)
    IN  \/ a[1] < b[1]
        \/ a[1] = b[1] /\ a[2] < b[2]
        \/ a[1] = b[1] /\ a[2] = b[2] /\ a[3] < b[3]

NoConfig == [shortName |-> "none", source |-> "none", rev |-> 0]

\* The central list, revision r: name -> {registry, config}.
AnalyserList(r) ==
    [n \in KnownNames |->
        [registry |-> "npm",
         config |-> [shortName |-> n, source |-> "registry", rev |-> r]]]

\* config.json of an installed analyser, as readAnalyserConfig parses it.
DiskConfig(name) == [shortName |-> name, source |-> "disk", rev |-> 0]

\* path.join(ANALYSER_INSTALL_DIR, `${name}@${version}`)
pathToAnalyser(name, version) == <<name, version>>

NoPath == <<>>

\* removed counts the times the directory has been removed; the program keeps
\* no such count, it is recorded to tell the directories of one path apart.
\* unpacked: the files of the package have been extracted into the directory.
Absent ==
    [present |-> FALSE, by |-> 0, marker |-> FALSE, tgz |-> FALSE,
     config |-> "none", hooked |-> FALSE, removed |-> 0, unpacked |-> FALSE]

\* A complete install left by an earlier session, to which a marker file was
\* added afterwards.
Installed ==
    [present |-> TRUE, by |-> 0, marker |-> TRUE, tgz |-> FALSE,
     config |-> "ok", hooked |-> TRUE, removed |-> 0, unpacked |-> TRUE]

\* The directory mkdir creates for the call numbered seq where d was.
NewDir(d, seq) ==
    [Absent EXCEPT !.present = TRUE, !.by = seq, !.removed = d.removed]

\* What remove leaves where d was.
Removed(d) ==
    [Absent EXCEPT !.removed = IF d.present THEN d.removed + 1 ELSE d.removed]

DirAt(fs, p) == IF p \in DOMAIN fs THEN fs[p] ELSE Absent

\* The install root: present and writable, present and read-only, missing.
RootOk == [exists |-> TRUE, writable |-> TRUE]

RootReadOnly == [exists |-> TRUE, writable |-> FALSE]

RootMissing == [exists |-> FALSE, writable |-> FALSE]

NoErr == <<"none", "">>

NoRes ==
    [path |-> NoPath, config |-> NoConfig, latest |-> "none",
     newer |-> "absent", list |-> Null, err |-> NoErr, cause |-> "none",
     registry |-> "none", valid |-> <<>>, easy |-> <<>>]

Idle ==
    [op |-> "none", name |-> "none", version |-> "none", force |-> FALSE,
     pc |-> "idle", ret |-> "none", vti |-> "none", cfg |-> NoConfig,
     res |-> NoRes, events |-> <<>>,
     req |-> [list |-> 0, npm |-> 0, tarball |-> 0],
     seq |-> 0, sawDir |-> FALSE, made |-> FALSE, conc |-> FALSE,
     fresh |-> FALSE, gen |-> 0, analysers |-> <<>>, viaMkdir |-> FALSE,
     answer |-> "none", repoConfig |-> <<>>]

\* How a call ends: its promise is resolved or rejected, or an exception no
\* handler catches is thrown.
Settled == {"resolved", "rejected", "uncaught"}

InFlight(c) == c.pc \notin Settled \cup {"idle"}

doResolve(c, r) == [c EXCEPT !.pc = "resolved", !.res = r]

\* doReject(errMsg, err): the message of err, when it has one, is appended to
\* errMsg; cause is that message.
doRejectWith(c, kind, subject, cause) ==
    [c EXCEPT !.pc = "rejected",
              !.res = [NoRes EXCEPT !.err = <<kind, subject>>, !.cause = cause]]

doReject(c, kind, subject) == doRejectWith(c, kind, subject, "none")

\* The install root with the directories of P left by an earlier session.
Disk(P) == [p \in DirNames |-> IF p \in P THEN Installed ELSE Absent]

\* The manager after construction, on one of the given install roots.
InitOn(roots) ==
    /\ call = [k \in Callers |-> Idle]
    /\ ALL_ANALYSERS = Null
    /\ dirs \in roots
    /\ npmLatest = 1
    /\ observed = [e \in EventTypes \X Names |-> 0]
    /\ started = 0
    /\ lastList = Null
    /\ root = RootOk

Init == InitOn({Disk({}), Disk({<<"sidekick-david", "1.0.3">>})})

(***************************************************************************)
(* Events.  The extractor of a call emits on itself; proxyAll(extractor,   *)
(* self) re-emits each event, with its data, on the manager.               *)
(***************************************************************************)
\* An eventData kept in one place shared by all extractors: it holds the name
\* of the call issued last.
eventData_shared(c) ==
    LET last == CHOOSE k \in Callers : \A j \in Callers : call[j].seq <= call[k].seq
    IN  [analyser |-> call[last].name, version |-> c.vti]

\* eventData of NpmExtractor.fetch: the analyser name of the call.
eventData(c) == [analyser |-> c.name, version |-> c.vti]

\* The manager's listeners after the extractor emitted `type` with `data`.
proxyAll(obs, type, data) ==
    [obs EXCEPT ![<<type, data.analyser>>] = @ + 1]

\* self.emit(type, eventData) on the extractor of call c.
emit(c, type) == [c EXCEPT !.events = Append(@, <<type, eventData(c)>>)]

(***************************************************************************)
(* fetchAnalyserList: the primary URL, then the fallback URL.              *)
(***************************************************************************)
\* What a request for the list can be answered with, at the primary and at
\* the fallback URL: a revision of the list, or Null for a transport error, a
\* non-200 status or unparsable JSON.
RawgitAnswers == {Null, 1}

GithubAnswers == {Null, 2}

\* A cache that is written only while it is empty.
storeList_firstWins(cache, r) == IF cache = Null THEN r ELSE cache

\* self.ALL_ANALYSERS = allAnalysers
storeList(cache, r) == r

\* self.fetchAnalyserList(): request(RAWGIT_SK_CENTRAL_ANALYSER_LIST_URL).
fetchAnalyserList(c, ret) ==
    [c EXCEPT !.pc = "fetchList_rawgit", !.ret = ret, !.req.list = @ + 1]

\* NpmExtractor.fetchNpmInfoForAnalyser: request(NPM_URL).
fetchNpmInfoForAnalyser(c, pc) == [c EXCEPT !.pc = pc, !.req.npm = @ + 1]

\* semver(version) of _installAnalyser: constructs a SemVer, which throws a
\* TypeError for a string that is no semantic version.
semverThrows(version) == version # "latest" /\ ~semver_valid(version)

\* The rejection of the earlier revisions: a plain Error.
unknownAnalyser_plainError(c) == doReject(c, "Error", c.name)

\* An isNewerVersionAvailable that asks the package registry before it
\* looks at the list entry.
unknownAnalyser_afterRegistry(c) ==
    IF c.ret = "isNewerVersionAvailable"
    THEN fetchNpmInfoForAnalyser(c, "getLatestVersion")
    ELSE doReject(c, "UnknownAnalyserError", c.name)

\* Promise.reject(new UnknownAnalyserError(analyserName))
unknownAnalyser(c) == doReject(c, "UnknownAnalyserError", c.name)

\* ALL_ANALYSERS[analyserName] of getAllAnalyserEntry is defined.
getAllAnalyserEntry(r, name) == name \in DOMAIN AnalyserList(r)

\* A lookup that answers an unknown name with an empty entry.
returnConfig_resolvesEmpty(c, cache) ==
    IF c.name \in DOMAIN AnalyserList(cache)
    THEN doResolve(c, [NoRes EXCEPT
            !.registry = AnalyserList(cache)[c.name].registry,
            !.config = AnalyserList(cache)[c.name].config])
    ELSE doResolve(c, NoRes)

\* returnConfig of fetchCanonicalAnalyserConfig: self.ALL_ANALYSERS[analyserName]
\* or the rejection `Unknown analyser '${analyserName}'`.
returnConfig(c, cache) ==
    IF c.name \in DOMAIN AnalyserList(cache)
    THEN doResolve(c, [NoRes EXCEPT
            !.registry = AnalyserList(cache)[c.name].registry,
            !.config = AnalyserList(cache)[c.name].config])
    ELSE doReject(c, "Unknown analyser", c.name)

\* analyser.name && self.ALL_ANALYSERS[analyser.name]; "none" stands for an
\* entry without a name.
isKnown_named(cache, n) == n # "none"

isKnown(cache, n) == n # "none" /\ n \in DOMAIN AnalyserList(cache)

\* doResolve of validateAnalyserList: the analysers the list knows, in order.
validAnalysers(c, cache) ==
    doResolve(c, [NoRes EXCEPT
        !.valid = SelectSeq(c.analysers, LAMBDA n : isKnown(cache, n))])

\* The catch of init's mkdir branch: a failure of mkdir, of canWrite or of
\* fetchAnalyserList is rejected again as a failure to create the directory,
\* with the message of the failure appended.  Outside that branch the failure
\* is passed on as it is.
initCatch(c, kind, cause) ==
    IF c.viaMkdir
    THEN doRejectWith(c, "Unable to create sidekick analyser directory", "", kind)
    ELSE doRejectWith(c, kind, "", cause)

\* Both list requests of the call failed.  validateAnalyserList attaches no
\* rejection handler to fetchAnalyserList() and settles its own promise only
\* in the fulfilment handler: its promise stays pending.
listFailed(c) ==
    CASE c.ret = "validateAnalyserList" -> [c EXCEPT !.pc = "pending"]
      [] c.ret = "init" -> initCatch(c, "Unable to fetch list of analysers", "none")
      [] OTHER -> doReject(c, "Unable to fetch list of analysers", "")

\* The handler that receives the list in getAllAnalyserEntry, and what follows
\* it in the same turn: the version lookup of isNewerVersionAvailable, or
\* _installAnalyser up to the extractor's first request, or the resolution of
\* fetchAnalyserList for the caller, for init, for
\* fetchCanonicalAnalyserConfig and for validateAnalyserList.
thenList(k, c, r) ==
    CASE c.ret \in {"fetchAnalyserList", "init"} ->
            /\ call' = [call EXCEPT ![k] = doResolve(c, [NoRes EXCEPT !.list = r])]
            /\ UNCHANGED observed
      [] c.ret = "fetchCanonicalAnalyserConfig" ->
            /\ call' = [call EXCEPT ![k] = returnConfig(c, r)]
            /\ UNCHANGED observed
      [] c.ret = "validateAnalyserList" ->
            /\ call' = [call EXCEPT ![k] = validAnalysers(c, r)]
            /\ UNCHANGED observed
      [] c.ret = "isNewerVersionAvailable" ->
            /\ call' = [call EXCEPT ![k] =
                    IF getAllAnalyserEntry(r, c.name)
                    THEN fetchNpmInfoForAnalyser(c, "getLatestVersion")
                    ELSE unknownAnalyser(c)]
            /\ UNCHANGED observed
      [] c.ret = "_installAnalyser" ->
            IF ~getAllAnalyserEntry(r, c.name)
            THEN /\ call' = [call EXCEPT ![k] = unknownAnalyser(c)]
                 /\ UNCHANGED observed
            ELSE IF semverThrows(c.vti)
            THEN /\ call' = [call EXCEPT ![k] = doReject(c, "TypeError", c.vti)]
                 /\ UNCHANGED observed
            ELSE LET e == AnalyserList(r)[c.name]
                     d == [c EXCEPT !.cfg = e.config]
                 IN  IF e.registry # "npm"
                     THEN /\ call' = [call EXCEPT ![k] =
                                 doReject(d, "Unknown registry", e.registry)]
                          /\ UNCHANGED observed
                     ELSE /\ call' = [call EXCEPT ![k] =
                                 fetchNpmInfoForAnalyser(emit(d, "downloading"), "fetch")]
                          /\ observed' = proxyAll(observed, "downloading", eventData(d))

\* A primary request whose failure fails the fetch, the fallback untried.
fetchList_rawgit_noFallback(k) ==
    /\ call[k].pc = "fetchList_rawgit"
    /\ \E r \in RawgitAnswers :
          IF r # Null
          THEN /\ ALL_ANALYSERS' = storeList(ALL_ANALYSERS, r)
               /\ lastList' = r
               /\ thenList(k, call[k], r)
          ELSE /\ call' = [call EXCEPT ![k] = listFailed(call[k])]
               /\ UNCHANGED <<ALL_ANALYSERS, lastList, observed>>
    /\ UNCHANGED <<dirs, npmLatest, started, root>>

\* The primary request is answered.
fetchList_rawgit(k) ==
    /\ call[k].pc = "fetchList_rawgit"
    /\ \E r \in RawgitAnswers :
          IF r # Null
          THEN /\ ALL_ANALYSERS' = storeList(ALL_ANALYSERS, r)
               /\ lastList' = r
               /\ thenList(k, call[k], r)
          ELSE /\ call' = [call EXCEPT ![k].pc = "fetchList_github",
                                       ![k].req.list = @ + 1]
               /\ UNCHANGED <<ALL_ANALYSERS, lastList, observed>>
    /\ UNCHANGED <<dirs, npmLatest, started, root>>

\* A fallback request whose failure empties the cache.
fetchList_github_clears(k) ==
    /\ call[k].pc = "fetchList_github"
    /\ \E r \in GithubAnswers :
          IF r # Null
          THEN /\ ALL_ANALYSERS' = storeList(ALL_ANALYSERS, r)
               /\ lastList' = r
               /\ thenList(k, call[k], r)
          ELSE /\ call' = [call EXCEPT ![k] = listFailed(call[k])]
               /\ ALL_ANALYSERS' = Null
               /\ UNCHANGED <<lastList, observed>>
    /\ UNCHANGED <<dirs, npmLatest, started, root>>

\* The fallback request is answered.
fetchList_github(k) ==
    /\ call[k].pc = "fetchList_github"
    /\ \E r \in GithubAnswers :
          IF r # Null
          THEN /\ ALL_ANALYSERS' = storeList(ALL_ANALYSERS, r)
               /\ lastList' = r
               /\ thenList(k, call[k], r)
          ELSE /\ call' = [call EXCEPT ![k] = listFailed(call[k])]
               /\ UNCHANGED <<ALL_ANALYSERS, lastList, observed>>
    /\ UNCHANGED <<dirs, npmLatest, started, root>>

(***************************************************************************)
(* The package registry.                                                   *)
(***************************************************************************)
\* The body of a 200 answer of registry.npmjs.org for a known package.
NpmInfo ==
    [latest |-> Published[npmLatest],
     versions |-> {Published[i] : i \in 1..npmLatest}]

\* A newer version is published.
Publish ==
    /\ npmLatest < Len(Published)
    /\ npmLatest' = npmLatest + 1
    /\ UNCHANGED <<call, ALL_ANALYSERS, dirs, observed, started, lastList, root>>

\* Both failure branches of fetchNpmInfoForAnalyser pass the undeclared
\* identifier `error` to doReject: evaluating it throws a ReferenceError, which
\* is what the promise rejects with.
fetchNpmInfoFailed(c) == doReject(c, "ReferenceError", "error is not defined")

\* An isNewerVersionAvailable that insists on a valid current version.
isNewerResult_strict(c, latestVersion) ==
    IF semver_valid(c.version) /\ semver_valid(latestVersion)
    THEN doResolve(c, [NoRes EXCEPT
            !.newer = IF semver_lt(c.version, latestVersion) THEN "true" ELSE "false",
            !.latest = latestVersion])
    ELSE doReject(c, "Invalid version", c.name)

\* How the package registry can answer the metadata request: with an error
\* or a non-200 status, with the package's metadata, or with metadata whose
\* dist-tags name no latest version.
NpmAnswers == {"error", "ok", "untagged"}

\* analyserInfo['dist-tags'].latest of the answer.
latestOf(ans) == IF ans = "untagged" THEN "undefined" ELSE NpmInfo.latest

\* A version check whose extractor announces a download.
isNewerResult_emits(c, latestVersion) ==
    IF semver_valid(latestVersion)
    THEN doResolve(emit(c, "downloading"), [NoRes EXCEPT
            !.newer = IF ~semver_valid(c.version) THEN "absent"
                      ELSE IF semver_lt(c.version, latestVersion) THEN "true"
                      ELSE "false",
            !.latest = latestVersion])
    ELSE doReject(c, "Invalid version", c.name)

\* The result of isNewerVersionAvailable once latestVersion is known.
isNewerResult(c, latestVersion) ==
    IF semver_valid(c.version) /\ semver_valid(latestVersion)
    THEN doResolve(c, [NoRes EXCEPT
            !.newer = IF semver_lt(c.version, latestVersion) THEN "true" ELSE "false",
            !.latest = latestVersion])
    ELSE IF semver_valid(latestVersion)
    THEN doResolve(c, [NoRes EXCEPT !.latest = latestVersion])
    ELSE doReject(c, "Invalid version", c.name)

\* An installAnalyser that installs under the version it was asked for.
haveVersion_asRequested(c, latest) ==
    [c EXCEPT !.vti = IF c.version \in {"none", "latest"} THEN "latest" ELSE latest,
              !.pc = "exists"]

\* installAnalyser once the version is known: exists(pathToAnalyser) is issued.
haveVersion(c, latest) == [c EXCEPT !.vti = latest, !.pc = "exists"]

\* extractor.getLatestVersion is answered.  For installAnalyser, no version was
\* passed to isNewerVersionAvailable, so its result is {latest}.
getLatestVersion(k) ==
    /\ call[k].pc = "getLatestVersion"
    /\ \E ans \in NpmAnswers :
          LET c == [call[k] EXCEPT !.answer = ans] IN
          call' = [call EXCEPT ![k] =
              IF ans = "error" THEN fetchNpmInfoFailed(c)
              ELSE IF c.op = "isNewerVersionAvailable"
              THEN isNewerResult(c, latestOf(ans))
              ELSE IF semver_valid(latestOf(ans))
              THEN haveVersion(c, latestOf(ans))
              ELSE doReject(c, "Invalid version", c.name)]
    /\ UNCHANGED <<ALL_ANALYSERS, dirs, npmLatest, observed, started, lastList, root>>

(***************************************************************************)
(* The file system.                                                        *)
(***************************************************************************)
\* What fs.stat can answer for a directory in state d.
StatAnswers(d) == IF d.present THEN {"ok", "EACCES"} ELSE {"ENOENT", "EACCES"}

\* A readAnalyserConfig that answers with the central list's config.
readAnalyserConfig_then_listConfig(c, d) ==
    IF ~d.present \/ d.config = "none"
    THEN doReject(c, "Unable to read config file for analyser", c.name)
    ELSE doResolve(c, [NoRes EXCEPT !.path = pathToAnalyser(c.name, c.vti),
                                    !.config = AnalyserList(1)[c.name].config])

\* A readAnalyserConfig that takes an unparsable file for an empty config.
readAnalyserConfig_then_lenient(c, d) ==
    IF ~d.present \/ d.config = "none"
    THEN doReject(c, "Unable to read config file for analyser", c.name)
    ELSE doResolve(c, [NoRes EXCEPT !.path = pathToAnalyser(c.name, c.vti),
                                    !.config = IF d.config = "bad" THEN NoConfig
                                               ELSE DiskConfig(c.name)])

\* readAnalyserConfig: readFile answered, then JSON.parse.  The messages name
\* the directory read; the analyser's name stands for it here, the version
\* being the call's.
readAnalyserConfig_then(c, d) ==
    IF ~d.present \/ d.config = "none"
    THEN doReject(c, "Unable to read config file for analyser", c.name)
    ELSE IF d.config = "bad"
    THEN doReject(c, "Unable to parse config file for analyser", c.name)
    ELSE doResolve(c, [NoRes EXCEPT !.path = pathToAnalyser(c.name, c.vti),
                                    !.config = DiskConfig(c.name)])

readAnalyserConfig(k) ==
    LET c == call[k] IN
    /\ c.pc = "readAnalyserConfig"
    /\ call' = [call EXCEPT ![k] =
            readAnalyserConfig_then(c, DirAt(dirs, pathToAnalyser(c.name, c.vti)))]
    /\ UNCHANGED <<ALL_ANALYSERS, dirs, npmLatest, observed, started, lastList, root>>

\* A fetchAnalyser that installs the analyser it does not find.
fetchAnalyser_exists_installs(k) ==
    LET c == call[k] IN
    /\ c.pc = "fetchAnalyser_exists"
    /\ \E st \in StatAnswers(DirAt(dirs, pathToAnalyser(c.name, c.vti))) :
          call' = [call EXCEPT ![k] =
              IF st = "ok"
              THEN [c EXCEPT !.pc = "readAnalyserConfig", !.sawDir = TRUE]
              ELSE fetchAnalyserList(c, "_installAnalyser")]
    /\ UNCHANGED <<ALL_ANALYSERS, dirs, npmLatest, observed, started, lastList, root>>

\* A fetchAnalyser that falls back on another installed version of the
\* analyser.
fetchAnalyser_exists_anyVersion(k) ==
    LET c == call[k]
        others == {v \in {"1.0.3", "1.0.5"} :
                      DirAt(dirs, pathToAnalyser(c.name, v)).present}
    IN
    /\ c.pc = "fetchAnalyser_exists"
    /\ \E st \in StatAnswers(DirAt(dirs, pathToAnalyser(c.name, c.vti))) :
          call' = [call EXCEPT ![k] =
              IF st = "ok"
              THEN [c EXCEPT !.pc = "readAnalyserConfig", !.sawDir = TRUE]
              ELSE IF others # {}
              THEN [c EXCEPT !.pc = "readAnalyserConfig",
                             !.vti = CHOOSE v \in others : TRUE]
              ELSE doRejectWith(c, "Unable to fetch config for analyser", c.name, st)]
    /\ UNCHANGED <<ALL_ANALYSERS, dirs, npmLatest, observed, started, lastList, root>>

\* fetchAnalyser: exists(pathToAnalyser) answered.
fetchAnalyser_exists(k) ==
    LET c == call[k] IN
    /\ c.pc = "fetchAnalyser_exists"
    /\ \E st \in StatAnswers(DirAt(dirs, pathToAnalyser(c.name, c.vti))) :
          call' = [call EXCEPT ![k] =
              IF st = "ok"
              THEN [c EXCEPT !.pc = "readAnalyserConfig", !.sawDir = TRUE]
              ELSE doRejectWith(c, "Unable to fetch config for analyser", c.name, st)]
    /\ UNCHANGED <<ALL_ANALYSERS, dirs, npmLatest, observed, started, lastList, root>>

\* An installAnalyser that installs whether or not the directory exists.
installAnalyser_branch_reinstalls(c, st) ==
    IF st = "ok" \/ st = "ENOENT"
    THEN fetchAnalyserList([c EXCEPT !.sawDir = (st = "ok")], "_installAnalyser")
    ELSE doRejectWith(c, "Cannot read analyser install dir", "", st)

\* An installAnalyser that ignores force.
installAnalyser_branch_noForce(c, st) ==
    IF st = "ok"
    THEN [c EXCEPT !.pc = "readAnalyserConfig", !.sawDir = TRUE]
    ELSE IF st = "ENOENT"
    THEN fetchAnalyserList(c, "_installAnalyser")
    ELSE doRejectWith(c, "Cannot read analyser install dir", "", st)

\* An installAnalyser that removes the directory it finds, forced or not.
installAnalyser_branch_removes(c, st) ==
    IF st = "ok"
    THEN [c EXCEPT !.pc = "remove", !.sawDir = TRUE]
    ELSE IF st = "ENOENT"
    THEN fetchAnalyserList(c, "_installAnalyser")
    ELSE doRejectWith(c, "Cannot read analyser install dir", "", st)

\* installAnalyser: what follows the answer st of exists(pathToAnalyser).
installAnalyser_branch(c, st) ==
    IF st = "ok"
    THEN IF c.force
         THEN [c EXCEPT !.pc = "remove", !.sawDir = TRUE]
         ELSE [c EXCEPT !.pc = "readAnalyserConfig", !.sawDir = TRUE]
    ELSE IF st = "ENOENT"
    THEN fetchAnalyserList(c, "_installAnalyser")
    ELSE doRejectWith(c, "Cannot read analyser install dir", "", st)

installAnalyser_exists(k) ==
    LET c == call[k] IN
    /\ c.pc = "exists"
    /\ \E st \in StatAnswers(DirAt(dirs, pathToAnalyser(c.name, c.vti))) :
          call' = [call EXCEPT ![k] = installAnalyser_branch(c, st)]
    /\ UNCHANGED <<ALL_ANALYSERS, dirs, npmLatest, observed, started, lastList, root>>

\* A forced install that leaves the directory it found in place.
installAnalyser_remove_keeps(k) ==
    LET c == call[k] IN
    /\ c.pc = "remove"
    /\ \E ok \in BOOLEAN :
          call' = [call EXCEPT ![k] =
              IF ok THEN fetchAnalyserList(c, "_installAnalyser")
              ELSE doReject(c, "EACCES", "")]
    /\ UNCHANGED <<ALL_ANALYSERS, dirs, npmLatest, observed, started, lastList, root>>

\* installAnalyser with force: remove(pathToAnalyser) answered.  fs-extra's
\* remove succeeds on a path that is already gone.
installAnalyser_remove(k) ==
    LET c == call[k]
        p == pathToAnalyser(c.name, c.vti)
    IN
    /\ c.pc = "remove"
    /\ \E ok \in BOOLEAN :
          IF ok
          THEN /\ dirs' = [q \in DOMAIN dirs |->
                                IF q = p THEN Removed(dirs[q]) ELSE dirs[q]]
               /\ call' = [call EXCEPT ![k] = fetchAnalyserList(c, "_installAnalyser")]
          ELSE /\ call' = [call EXCEPT ![k] = doReject(c, "EACCES", "")]
               /\ UNCHANGED dirs
    /\ UNCHANGED <<ALL_ANALYSERS, npmLatest, observed, started, lastList, root>>

(***************************************************************************)
(* NpmExtractor.fetch: metadata, mkdir, tarball, unpack, install hook.     *)
(***************************************************************************)
setDir(fs, p, d) == [q \in DOMAIN fs |-> IF q = p THEN d ELSE fs[q]]

\* A lookup that falls back to the latest version.
versionToInstall_fallsBack(c, info) ==
    IF c.vti = "latest" \/ c.vti \notin info.versions THEN info.latest ELSE c.vti

\* The version whose tarball fetch looks up.
versionToInstall(c, info) == IF c.vti = "latest" THEN info.latest ELSE c.vti

\* fetch: the package metadata is answered; mkdir(newAnalyserDir) is issued
\* when the registry has the version.
fetch(k) ==
    /\ call[k].pc = "fetch"
    /\ \E ok \in BOOLEAN :
          LET c == [call[k] EXCEPT !.answer = IF ok THEN "ok" ELSE "error"] IN
          call' = [call EXCEPT ![k] =
              IF ~ok THEN fetchNpmInfoFailed(c)
              ELSE IF versionToInstall(c, NpmInfo) \notin NpmInfo.versions
              THEN doReject(c, "Invalid version for analyser", c.name)
              ELSE [c EXCEPT !.pc = "mkdir"]]
    /\ UNCHANGED <<ALL_ANALYSERS, dirs, npmLatest, observed, started, lastList, root>>

\* A mkdir that accepts an existing directory.
MkdirAnswers_mkdirp(d) == {"ok", "EACCES"}

\* What fs.mkdir can answer for a directory in state d.
MkdirAnswers(d) == IF d.present THEN {"EEXIST"} ELSE {"ok", "EACCES"}

\* mkdir answered: on success the tarball request starts.
fetch_mkdir(k) ==
    LET c == call[k]
        p == pathToAnalyser(c.name, c.vti)
    IN
    /\ c.pc = "mkdir"
    /\ \E st \in MkdirAnswers(DirAt(dirs, p)) :
          IF st = "ok"
          THEN /\ dirs' = setDir(dirs, p, NewDir(DirAt(dirs, p), c.seq))
               /\ call' = [call EXCEPT ![k] =
                      [c EXCEPT !.pc = "fetchAnalyserTarball", !.made = TRUE,
                                !.req.tarball = @ + 1]]
          ELSE /\ call' = [call EXCEPT ![k] =
                      doRejectWith(c, "Unable to create analyser dir for analyser",
                                   c.name, st)]
               /\ UNCHANGED dirs
    /\ UNCHANGED <<ALL_ANALYSERS, npmLatest, observed, started, lastList, root>>

\* How the download into a directory in state d can end for the call
\* numbered seq.  "written": the stream finished and the tarball is in the
\* directory.  "error": the request failed.  "uncaught": the write stream
\* failed (the file cannot be opened or written); it has no 'error' listener,
\* so the event is thrown and the promise is left unsettled.  A directory the
\* call did not
\* create replaces the one it created: the stream, opened on the old one,
\* finishes with the file "lost".  With no directory at the path the stream
\* either was opened before the removal ("lost") or fails to open.
TarballAnswers(d, seq) ==
    IF d.present /\ d.by = seq THEN {"written", "uncaught", "error"}
    ELSE IF d.present THEN {"written", "lost", "uncaught", "error"}
    ELSE {"lost", "uncaught", "error"}

fetchAnalyserTarball(k) ==
    LET c == call[k]
        p == pathToAnalyser(c.name, c.vti)
        d == DirAt(dirs, p)
    IN
    /\ c.pc = "fetchAnalyserTarball"
    /\ \E st \in TarballAnswers(d, c.seq) :
          CASE st = "error" ->
                /\ call' = [call EXCEPT ![k] =
                       doReject(c, "Unable to fetch tarball", "")]
                /\ UNCHANGED <<dirs, observed>>
            [] st = "uncaught" ->
                /\ call' = [call EXCEPT ![k].pc = "uncaught"]
                /\ UNCHANGED <<dirs, observed>>
            [] OTHER ->
                /\ dirs' = IF st = "written"
                           THEN setDir(dirs, p, [d EXCEPT !.tgz = TRUE])
                           ELSE dirs
                /\ call' = [call EXCEPT ![k] =
                       [emit(c, "downloaded") EXCEPT !.pc = "unpack"]]
                /\ observed' = proxyAll(observed, "downloaded", eventData(c))
    /\ UNCHANGED <<ALL_ANALYSERS, npmLatest, started, lastList, root>>

\* What config.json a package can carry.
PackageConfigs == {"ok", "none"}

\* An unpack that rejects when the tarball cannot be unlinked.
unpack_unlinkFatal(k) ==
    LET c == call[k]
        p == pathToAnalyser(c.name, c.vti)
        d == DirAt(dirs, p)
    IN
    /\ c.pc = "unpack"
    /\ IF ~(d.present /\ d.tgz)
       THEN /\ call' = [call EXCEPT ![k] = doReject(c, "ENOENT", "")]
            /\ UNCHANGED <<dirs, observed>>
       ELSE \E ok \in BOOLEAN, cfg \in PackageConfigs, unlinked \in BOOLEAN :
              IF ok /\ unlinked
              THEN /\ dirs' = setDir(dirs, p,
                          [d EXCEPT !.config = cfg, !.tgz = FALSE,
                                    !.unpacked = TRUE])
                   /\ call' = [call EXCEPT ![k] =
                          [emit(c, "installing") EXCEPT !.pc = "install"]]
                   /\ observed' = proxyAll(observed, "installing", eventData(c))
              ELSE IF ok
              THEN /\ dirs' = setDir(dirs, p,
                          [d EXCEPT !.config = cfg, !.unpacked = TRUE])
                   /\ call' = [call EXCEPT ![k] = doReject(c, "unlink", "")]
                   /\ UNCHANGED observed
              ELSE /\ cfg = "ok" /\ unlinked
                   /\ call' = [call EXCEPT ![k] = doReject(c, "unpack", "")]
                   /\ UNCHANGED <<dirs, observed>>
    /\ UNCHANGED <<ALL_ANALYSERS, npmLatest, started, lastList, root>>

\* unpack answered.  Extraction adds the package's files to the directory;
\* the tarball is then unlinked, and a failure to unlink is ignored.  On
\* success install() emits 'installing' and starts the hook.
unpack(k) ==
    LET c == call[k]
        p == pathToAnalyser(c.name, c.vti)
        d == DirAt(dirs, p)
    IN
    /\ c.pc = "unpack"
    /\ IF ~(d.present /\ d.tgz)
       THEN /\ call' = [call EXCEPT ![k] = doReject(c, "ENOENT", "")]
            /\ UNCHANGED <<dirs, observed>>
       ELSE \E ok \in BOOLEAN, cfg \in PackageConfigs, unlinked \in BOOLEAN :
              IF ok
              THEN /\ dirs' = setDir(dirs, p,
                          [d EXCEPT !.config = cfg, !.tgz = ~unlinked,
                                    !.unpacked = TRUE])
                   /\ call' = [call EXCEPT ![k] =
                          [emit(c, "installing") EXCEPT !.pc = "install"]]
                   /\ observed' = proxyAll(observed, "installing", eventData(c))
              ELSE /\ cfg = "ok" /\ unlinked
                   /\ call' = [call EXCEPT ![k] = doReject(c, "unpack", "")]
                   /\ UNCHANGED <<dirs, observed>>
    /\ UNCHANGED <<ALL_ANALYSERS, npmLatest, started, lastList, root>>

\* A callback that emits 'installed' before it looks at the error.
puts_emitsFirst(c, error) ==
    IF error
    THEN doReject(emit(c, "installed"), "exec", "")
    ELSE doResolve(emit(c, "installed"),
                   [NoRes EXCEPT !.path = pathToAnalyser(c.name, c.vti),
                                 !.config = c.cfg])

\* A callback that reports success whatever the hook did.
puts_ignoresError(c, error) ==
    doResolve(IF error THEN c ELSE emit(c, "installed"),
              [NoRes EXCEPT !.path = pathToAnalyser(c.name, c.vti),
                            !.config = c.cfg])

\* An install that resolves with the config.json of the new directory.
puts_readsDisk(c, error) ==
    IF error
    THEN doReject(c, "exec", "")
    ELSE doResolve(emit(c, "installed"),
                   [NoRes EXCEPT !.path = pathToAnalyser(c.name, c.vti),
                                 !.config = DiskConfig(c.name)])

\* The callback of exec: on error reject, otherwise emit 'installed' and
\* resolve.
puts(c, error) ==
    IF error
    THEN doReject(c, "exec", "")
    ELSE doResolve(emit(c, "installed"),
                   [NoRes EXCEPT !.path = pathToAnalyser(c.name, c.vti),
                                 !.config = c.cfg])

\* The install hook ends.  A hook that was running when the directory was
\* removed may still end well.
install(k) ==
    LET c == call[k]
        p == pathToAnalyser(c.name, c.vti)
        d == DirAt(dirs, p)
    IN
    /\ c.pc = "install"
    /\ \E error \in BOOLEAN :
          /\ call' = [call EXCEPT ![k] = puts(c, error)]
          /\ IF error
             THEN UNCHANGED <<dirs, observed>>
             ELSE /\ dirs' = IF d.present
                             THEN setDir(dirs, p, [d EXCEPT !.hooked = TRUE])
                             ELSE dirs
                  /\ observed' = proxyAll(observed, "installed", eventData(c))
    /\ UNCHANGED <<ALL_ANALYSERS, npmLatest, started, lastList, root>>

(***************************************************************************)
(* The public operations: the synchronous part of each call.               *)
(***************************************************************************)
\* The record of a new call.  answer is the last answer of the package
\* registry to the call.  seq numbers the calls; conc and fresh record
\* what held when the call was issued: another call was in flight, and no
\* directory {name}@{version} existed; gen is the number of times that
\* directory had been removed.
NewCall(op, name, version, force) ==
    [Idle EXCEPT !.op = op, !.name = name, !.version = version,
                 !.force = force, !.seq = started + 1,
                 !.conc = \E j \in Callers : InFlight(call[j]),
                 !.fresh = ~DirAt(dirs, pathToAnalyser(name, version)).present,
                 !.gen = DirAt(dirs, pathToAnalyser(name, version)).removed]

installAnalyser(k, name, version, force) ==
    LET c == NewCall("installAnalyser", name, version, force) IN
    /\ call' = [call EXCEPT ![k] =
            IF version = "none" \/ version = "latest"
            THEN fetchAnalyserList(c, "isNewerVersionAvailable")
            ELSE haveVersion(c, version)]
    /\ started' = started + 1
    /\ UNCHANGED <<ALL_ANALYSERS, dirs, npmLatest, observed, lastList, root>>

fetchAnalyser(k, name, version) ==
    LET c == NewCall("fetchAnalyser", name, version, FALSE) IN
    /\ call' = [call EXCEPT ![k] =
            [c EXCEPT !.vti = version, !.pc = "fetchAnalyser_exists"]]
    /\ started' = started + 1
    /\ UNCHANGED <<ALL_ANALYSERS, dirs, npmLatest, observed, lastList, root>>

isNewerVersionAvailable(k, name, version) ==
    LET c == NewCall("isNewerVersionAvailable", name, version, FALSE) IN
    /\ call' = [call EXCEPT ![k] = fetchAnalyserList(c, "isNewerVersionAvailable")]
    /\ started' = started + 1
    /\ UNCHANGED <<ALL_ANALYSERS, dirs, npmLatest, observed, lastList, root>>

Call_fetchAnalyserList(k) ==
    LET c == NewCall("fetchAnalyserList", "none", "none", FALSE) IN
    /\ call' = [call EXCEPT ![k] = fetchAnalyserList(c, "fetchAnalyserList")]
    /\ started' = started + 1
    /\ UNCHANGED <<ALL_ANALYSERS, dirs, npmLatest, observed, lastList, root>>

Request(op, name, version, force) ==
    [op |-> op, name |-> name, version |-> version, force |-> force]

\* Every operation on every name, version argument and force flag.
Requests ==
    {Request("installAnalyser", n, v, f) :
        n \in Names, v \in VersionArgs, f \in BOOLEAN}
    \cup {Request("fetchAnalyser", n, v, FALSE) :
        n \in Names, v \in VersionArgs \ {"none", "latest"}}
    \cup {Request("isNewerVersionAvailable", n, v, FALSE) :
        n \in Names, v \in {"none", "1.0.3", "1.0.5", "1.10.0", "garbage"}}
    \cup {Request("fetchAnalyserList", "none", "none", FALSE)}

\* The calls issued in succession.
SuccessiveRequests ==
    {Request("installAnalyser", n, v, f) :
        n \in {"sidekick-david", "rubbish-subbish-analyser"},
        v \in {"none", "1.0.3"}, f \in BOOLEAN}
    \cup {Request("installAnalyser", "sidekick-david", "1.0.5", FALSE),
          Request("fetchAnalyser", "sidekick-david", "1.0.3", FALSE),
          Request("isNewerVersionAvailable", "sidekick-david", "1.0.3", FALSE),
          Request("fetchAnalyserList", "none", "none", FALSE)}

\* The calls issued concurrently.
ConcurrentRequests ==
    {Request("installAnalyser", "sidekick-david", v, f) :
        v \in {"none", "1.0.3"}, f \in BOOLEAN}
    \cup {Request("installAnalyser", "sidekick-eslint", "1.0.3", FALSE),
          Request("fetchAnalyser", "sidekick-david", "1.0.3", FALSE),
          Request("isNewerVersionAvailable", "sidekick-david", "1.0.3", FALSE),
          Request("fetchAnalyserList", "none", "none", FALSE)}

\* A caller issues its next call, r, once its previous one has settled.
Invoke(k, r) ==
    /\ ~InFlight(call[k])
    /\ started < MaxCalls
    /\ CASE r.op = "installAnalyser" -> installAnalyser(k, r.name, r.version, r.force)
         [] r.op = "fetchAnalyser" -> fetchAnalyser(k, r.name, r.version)
         [] r.op = "isNewerVersionAvailable" ->
                isNewerVersionAvailable(k, r.name, r.version)
         [] r.op = "fetchAnalyserList" -> Call_fetchAnalyserList(k)

\* A handler of the call of caller k runs.
Handle(k) ==
    \/ fetchList_rawgit(k)
    \/ fetchList_github(k)
    \/ getLatestVersion(k)
    \/ fetchAnalyser_exists(k)
    \/ installAnalyser_exists(k)
    \/ installAnalyser_remove(k)
    \/ readAnalyserConfig(k)
    \/ fetch(k)
    \/ fetch_mkdir(k)
    \/ fetchAnalyserTarball(k)
    \/ unpack(k)
    \/ install(k)

\* The callers are interchangeable: "a" issues the first call.
First(k) == started = 0 => k = "a"

\* Concurrent calls on one manager.
Next ==
    \/ \E k \in Callers, r \in ConcurrentRequests : First(k) /\ Invoke(k, r)
    \/ \E k \in Callers : Handle(k)

Spec == Init /\ [][Next]_vars

\* Calls issued in succession: a call is issued only when no call is in
\* flight, by the caller whose call is the older one.  Between calls the
\* package registry may publish a version.
NoneInFlight == \A k \in Callers : ~InFlight(call[k])

Oldest(k) == \A j \in Callers : call[k].seq <= call[j].seq

NextSeq ==
    \/ \E k \in Callers, r \in SuccessiveRequests :
          NoneInFlight /\ First(k) /\ Oldest(k) /\ Invoke(k, r)
    \/ \E k \in Callers : Handle(k)
    \/ Publish

SpecSeq == Init /\ [][NextSeq]_vars

\* One call, of any operation on any name, version argument and force flag,
\* on any install root.
NextOne ==
    \/ \E r \in Requests : started = 0 /\ Invoke("a", r)
    \/ Handle("a")
    \/ Publish

\* An install root whose sidekick-david@1.0.3 has the config.json cfg: "ok",
\* "none" for a missing file, "bad" for one that does not parse.
DiskWith(cfg) ==
    setDir(Disk({}), <<"sidekick-david", "1.0.3">>,
           [Installed EXCEPT !.config = cfg])

InitOne ==
    InitOn({Disk({}), Disk({<<"sidekick-david", "1.0.3">>}),
            Disk({<<"rubbish-subbish-analyser", "1.0.3">>}),
            DiskWith("none"), DiskWith("bad")})

SpecOne == InitOne /\ [][NextOne]_vars

(***************************************************************************)
(* getLatestVersionOfInstalledAnalyser: a synchronous scan of the install  *)
(* root.                                                                   *)
(***************************************************************************)
\* The UTF-16 code units of the strings that occur as version suffixes and
\* as analyser names.
CodeUnits(v) ==
    CASE v = "1.0.3" -> <<49, 46, 48, 46, 51>>
      [] v = "1.0.5" -> <<49, 46, 48, 46, 53>>
      [] v = "1.9.0" -> <<49, 46, 57, 46, 48>>
      [] v = "1.10.0" -> <<49, 46, 49, 48, 46, 48>>
      [] v = "latest" -> <<108, 97, 116, 101, 115, 116>>
      [] v = "garbage" -> <<103, 97, 114, 98, 97, 103, 101>>
      [] v = "sidekick-david" ->
             <<115, 105, 100, 101, 107, 105, 99, 107, 45, 100, 97, 118,
             105, 100>>
      [] v = "Sidekick-David" ->
             <<83, 105, 100, 101, 107, 105, 99, 107, 45, 68, 97, 118,
             105, 100>>
      [] v = "sidekick.david" ->
             <<115, 105, 100, 101, 107, 105, 99, 107, 46, 100, 97, 118,
             105, 100>>
      [] v = "sidekick-eslint" ->
             <<115, 105, 100, 101, 107, 105, 99, 107, 45, 101, 115, 108,
             105, 110, 116>>
      [] v = "rubbish-subbish-analyser" ->
             <<114, 117, 98, 98, 105, 115, 104, 45, 115, 117, 98, 98,
             105, 115, 104, 45, 97, 110, 97, 108, 121, 115, 101, 114>>
      [] OTHER -> <<>>

RECURSIVE seqLess(_, _)
\* s < t for two sequences of code units: the comparison of JavaScript's <
\* on strings.
seqLess(s, t) ==
    IF t = <<>> THEN FALSE
    ELSE IF s = <<>> THEN TRUE
    ELSE IF Head(s) # Head(t) THEN Head(s) < Head(t)
    ELSE seqLess(Tail(s), Tail(t))

\* v < w on strings.
stringLess(v, w) == seqLess(CodeUnits(v), CodeUnits(w))

\* The code unit u without regard to case, as the "i" flag compares it.
caseFold(u) == IF u \in 65..90 THEN u + 32 ELSE u

\* One character of the pattern against one of the file name: the name is
\* put into the pattern as it is, so a "." in it matches any character.
reChar(pc, u) == pc = 46 \/ caseFold(pc) = caseFold(u)

RECURSIVE reAt(_, _)
\* The pattern matches at the start of the file name.
reAt(pat, file) ==
    IF pat = <<>> THEN TRUE
    ELSE IF file = <<>> THEN FALSE
    ELSE reChar(Head(pat), Head(file)) /\ reAt(Tail(pat), Tail(file))

\* new RegExp(`^${analyserName}@`, "i").test(file) for the entry p of the
\* install root, whose file name is p[1]@p[2].
reTest(analyserName, p) ==
    reAt(CodeUnits(analyserName) \o <<64>>,
         CodeUnits(p[1]) \o <<64>> \o CodeUnits(p[2]))

\* A file, not a directory, in the install root.
PlainFile ==
    [present |-> TRUE, by |-> 0, marker |-> FALSE, tgz |-> FALSE,
     config |-> "none", hooked |-> FALSE, removed |-> 0, unpacked |-> FALSE,
     file |-> TRUE]

\* stat.isDirectory()
isDirectory(d) == d.present /\ "file" \notin DOMAIN d

\* getDirectories(basePath, analyserName): the entries of the root that are
\* directories and match new RegExp(`^${analyserName}@`, "i"); empty when the
\* root does not exist.
getDirectories(rt, fs, analyserName) ==
    IF ~rt.exists THEN {}
    ELSE {p \in DOMAIN fs :
            /\ isDirectory(fs[p])
            /\ reTest(analyserName, p)}

\* _.sortBy(versions, identity) orders by < on the strings; the last element
\* of the result is the greatest under that order.
lastOfSortBy(versions) ==
    CHOOSE v \in versions : \A w \in versions : ~stringLess(v, w)

\* What getLatestVersionOfInstalledAnalyser returns: null when no directory
\* matches; otherwise the last of the sorted valid suffixes, which is
\* undefined (ascVersions[-1]) when none of the suffixes is valid.
latestInstalled(rt, fs, analyserName) ==
    LET allAnalyserDirs == getDirectories(rt, fs, analyserName)
        versions == {p[2] : p \in allAnalyserDirs}
        valid == {v \in versions : semver_valid(v)}
    IN  IF allAnalyserDirs = {} THEN "null"
        ELSE IF valid = {} THEN "undefined"
        ELSE lastOfSortBy(valid)

\* self.getLatestVersionOfInstalledAnalyser(analyserName): returns at once.
getLatestVersionOfInstalledAnalyser(k, name) ==
    LET c == NewCall("getLatestVersionOfInstalledAnalyser", name, "none", FALSE) IN
    /\ call' = [call EXCEPT ![k] =
            doResolve(c, [NoRes EXCEPT !.latest = latestInstalled(root, dirs, name)])]
    /\ started' = started + 1
    /\ UNCHANGED <<ALL_ANALYSERS, dirs, npmLatest, observed, lastList, root>>

\* The entries an install root is populated with for the scan.
ScanEntries ==
    {<<"sidekick-david", "1.0.3">>, <<"sidekick-david", "1.9.0">>,
     <<"sidekick-david", "1.10.0">>, <<"sidekick-david", "latest">>,
     <<"Sidekick-David", "1.0.5">>, <<"sidekick-eslint", "1.0.5">>,
     <<"sidekick-eslint", "garbage">>}

\* Install roots for the scan: any of the entries as directories, possibly
\* with a plain file named like a version directory.
ScanRoots ==
    {[p \in ScanEntries |->
        IF p \in P THEN Installed
        ELSE IF p = f THEN PlainFile
        ELSE Absent] :
     P \in SUBSET ScanEntries,
     f \in {<<"sidekick-eslint", "1.0.5">>, <<"none", "none">>}}

InitScan ==
    /\ call = [k \in Callers |-> Idle]
    /\ ALL_ANALYSERS = Null
    /\ dirs \in ScanRoots
    /\ npmLatest = 1
    /\ observed = [e \in EventTypes \X Names |-> 0]
    /\ started = 0
    /\ lastList = Null
    /\ root \in {RootOk, RootMissing}

\* The names the scan is called with.
ScanNames == Names \cup {"sidekick.david"}

NextScan ==
    \E k \in Callers, n \in ScanNames :
        /\ First(k) /\ started < MaxCalls
        /\ getLatestVersionOfInstalledAnalyser(k, n)

SpecScan == InitScan /\ [][NextScan]_vars

(***************************************************************************)
(* getAllAnalysersForConfig: the analysers a repository's configuration    *)
(* refers to.                                                              *)
(***************************************************************************)
\* The objects a configuration can refer to, by identity.  An analyser
\* reference is an object with one property, {"<name>": {options}}; objects
\* 1 and 2 are two objects with the same content, as JSON.parse makes of two
\* occurrences of one reference.
ConfigObjects ==
    <<[name |-> "sidekick-eslint", version |-> "latest", failCiOnError |-> TRUE],
      [name |-> "sidekick-eslint", version |-> "latest", failCiOnError |-> TRUE],
      [name |-> "sidekick-david", version |-> "1.0.3", failCiOnError |-> FALSE]>>

RECURSIVE flatten(_)
\* _.flatten: the elements of the arrays of ss, in order.
flatten(ss) == IF ss = <<>> THEN <<>> ELSE Head(ss) \o flatten(Tail(ss))

\* _.uniq: the first occurrence of each element, objects compared by
\* identity (SameValueZero).
uniq(s) ==
    SelectSeq([i \in 1..Len(s) |->
                  IF \E j \in 1..(i - 1) : s[j] = s[i] THEN 0 ELSE s[i]],
              LAMBDA o : o # 0)

\* The callback of _.map over repoConfig.languages: the references of one
\* language, over all its categories.
analysersForLang(lang) == uniq(flatten(lang))

\* allAnalysers of getAllAnalysersForConfig.
allAnalysers(repoConfig) ==
    uniq(flatten([i \in 1..Len(repoConfig) |-> analysersForLang(repoConfig[i])]))

\* easy: {name: Object.keys(analyser)[0]} with the options of the reference
\* as defaults.
easy(repoConfig) ==
    LET all == allAnalysers(repoConfig)
    IN  [i \in 1..Len(all) |-> ConfigObjects[all[i]]]

\* self.getAllAnalysersForConfig(repoConfig): returns at once.
getAllAnalysersForConfig(k, repoConfig) ==
    LET c == [NewCall("getAllAnalysersForConfig", "none", "none", FALSE)
                 EXCEPT !.repoConfig = repoConfig]
    IN
    /\ call' = [call EXCEPT ![k] =
            doResolve(c, [NoRes EXCEPT !.easy = easy(repoConfig)])]
    /\ started' = started + 1
    /\ UNCHANGED <<ALL_ANALYSERS, dirs, npmLatest, observed, lastList, root>>

\* The references of one category, of one language, and of a configuration:
\* languages -> categories -> references.
Categories ==
    [1..1 -> DOMAIN ConfigObjects] \cup {<<1, 1>>, <<2, 3>>, <<3, 1>>}

Languages == UNION {[1..n -> Categories] : n \in 1..2}

RepoConfigs == UNION {[1..n -> Languages] : n \in 1..2}

InitConfig == InitOn({Disk({})})

NextConfig ==
    \E k \in Callers, rc \in RepoConfigs :
        First(k) /\ started = 0 /\ getAllAnalysersForConfig(k, rc)

SpecConfig == InitConfig /\ [][NextConfig]_vars

(***************************************************************************)
(* init, fetchCanonicalAnalyserConfig and validateAnalyserList.            *)
(***************************************************************************)
\* What fs.stat, fs.mkdir and fs.access(W_OK) can answer for the install
\* root in state rt.
RootStatAnswers(rt) == IF rt.exists THEN {"ok", "EACCES"} ELSE {"ENOENT"}

RootMkdirAnswers(rt) == IF rt.exists THEN {"EEXIST"} ELSE {"ok", "EACCES"}

\* A canWrite that is satisfied with any directory.
canWrite_skipsCheck(c, rt) == fetchAnalyserList(c, "init")

\* canWrite(self.ANALYSER_INSTALL_DIR) answered: on success
\* self.fetchAnalyserList() is called.
canWrite(c, rt) ==
    IF rt.exists /\ rt.writable
    THEN fetchAnalyserList(c, "init")
    ELSE initCatch(c, "Unable to write to sidekick analyser directory", "EACCES")

\* An init that starts from an empty cache.
init_resets(k) ==
    LET c == NewCall("init", "none", "none", FALSE) IN
    /\ call' = [call EXCEPT ![k] = [c EXCEPT !.pc = "init_exists"]]
    /\ started' = started + 1
    /\ ALL_ANALYSERS' = Null
    /\ UNCHANGED <<dirs, npmLatest, observed, lastList, root>>

\* self.init(): exists(self.ANALYSER_INSTALL_DIR) is issued.
init(k) ==
    LET c == NewCall("init", "none", "none", FALSE) IN
    /\ call' = [call EXCEPT ![k] = [c EXCEPT !.pc = "init_exists"]]
    /\ started' = started + 1
    /\ UNCHANGED <<ALL_ANALYSERS, dirs, npmLatest, observed, lastList, root>>

\* exists answered: canWrite on success, mkdir on any failure.
init_exists(k) ==
    LET c == call[k] IN
    /\ c.pc = "init_exists"
    /\ \E st \in RootStatAnswers(root) :
          call' = [call EXCEPT ![k] =
              IF st = "ok"
              THEN [c EXCEPT !.pc = "init_canWrite"]
              ELSE [c EXCEPT !.pc = "init_mkdir", !.viaMkdir = TRUE]]
    /\ UNCHANGED <<ALL_ANALYSERS, dirs, npmLatest, observed, started, lastList, root>>

\* mkdir answered.  The directory is created with the permissions the
\* process's umask leaves it.
init_mkdir(k) ==
    LET c == call[k] IN
    /\ c.pc = "init_mkdir"
    /\ \E st \in RootMkdirAnswers(root) :
          IF st = "ok"
          THEN /\ root' \in {RootOk, RootReadOnly}
               /\ call' = [call EXCEPT ![k] =
                      [c EXCEPT !.pc = "init_canWrite", !.made = TRUE]]
          ELSE /\ call' = [call EXCEPT ![k] = initCatch(c, st, "none")]
               /\ UNCHANGED root
    /\ UNCHANGED <<ALL_ANALYSERS, dirs, npmLatest, observed, started, lastList>>

init_canWrite(k) ==
    LET c == call[k] IN
    /\ c.pc = "init_canWrite"
    /\ call' = [call EXCEPT ![k] = canWrite(c, root)]
    /\ UNCHANGED <<ALL_ANALYSERS, dirs, npmLatest, observed, started, lastList, root>>

\* self.fetchCanonicalAnalyserConfig(analyserName): answered from the cache
\* when it is populated, after fetchAnalyserList() otherwise.
fetchCanonicalAnalyserConfig(k, name) ==
    LET c == NewCall("fetchCanonicalAnalyserConfig", name, "none", FALSE) IN
    /\ call' = [call EXCEPT ![k] =
            IF ALL_ANALYSERS = Null
            THEN fetchAnalyserList(c, "fetchCanonicalAnalyserConfig")
            ELSE returnConfig(c, ALL_ANALYSERS)]
    /\ started' = started + 1
    /\ UNCHANGED <<ALL_ANALYSERS, dirs, npmLatest, observed, lastList, root>>

\* self.validateAnalyserList(analysers)
validateAnalyserList(k, analysers) ==
    LET c == [NewCall("validateAnalyserList", "none", "none", FALSE)
                 EXCEPT !.analysers = analysers]
    IN
    /\ call' = [call EXCEPT ![k] =
            IF ALL_ANALYSERS = Null
            THEN fetchAnalyserList(c, "validateAnalyserList")
            ELSE validAnalysers(c, ALL_ANALYSERS)]
    /\ started' = started + 1
    /\ UNCHANGED <<ALL_ANALYSERS, dirs, npmLatest, observed, lastList, root>>

\* The arrays validateAnalyserList is called with.
AnalyserArrays ==
    {<<>>, <<"sidekick-david">>, <<"rubbish-subbish-analyser">>,
     <<"sidekick-eslint", "rubbish-subbish-analyser", "sidekick-david">>,
     <<"none", "sidekick-david">>}

\* A handler of caller k's init, or of the list fetch of its call, runs.
HandleMgr(k) ==
    \/ init_exists(k)
    \/ init_mkdir(k)
    \/ init_canWrite(k)
    \/ fetchList_rawgit(k)
    \/ fetchList_github(k)

\* Concurrent calls of init, fetchAnalyserList, fetchCanonicalAnalyserConfig
\* and validateAnalyserList on one manager.
NextMgr ==
    \/ \E k \in Callers : First(k) /\ ~InFlight(call[k]) /\ started < MaxCalls
                           /\ init(k)
    \/ \E k \in Callers : First(k) /\ ~InFlight(call[k]) /\ started < MaxCalls
                           /\ Call_fetchAnalyserList(k)
    \/ \E k \in Callers, n \in Names :
          First(k) /\ ~InFlight(call[k]) /\ started < MaxCalls
          /\ fetchCanonicalAnalyserConfig(k, n)
    \/ \E k \in Callers, as \in AnalyserArrays :
          First(k) /\ ~InFlight(call[k]) /\ started < MaxCalls
          /\ validateAnalyserList(k, as)
    \/ \E k \in Callers : HandleMgr(k)

\* The manager after construction, on an install root that is missing,
\* read-only or writable; an existing root may hold an installed analyser.
InitMgr ==
    /\ call = [k \in Callers |-> Idle]
    /\ ALL_ANALYSERS = Null
    /\ dirs \in {Disk({}), Disk({<<"sidekick-david", "1.0.3">>})}
    /\ npmLatest = 1
    /\ observed = [e \in EventTypes \X Names |-> 0]
    /\ started = 0
    /\ lastList = Null
    /\ root \in {RootOk, RootReadOnly, RootMissing}

SpecMgr == InitMgr /\ [][NextMgr]_vars

\* Every request and every file operation is eventually answered.
FairMgr == SpecMgr /\ \A k \in Callers : WF_vars(HandleMgr(k))

FairOne == SpecOne /\ WF_vars(Handle("a"))

TypeOK ==
    /\ ALL_ANALYSERS \in ListRevs \cup {Null}
    /\ started \in 0..MaxCalls
    /\ \A k \in Callers : call[k].pc \in Settled \cup
          {"idle", "fetchList_rawgit", "fetchList_github", "getLatestVersion",
           "fetchAnalyser_exists", "exists", "remove", "readAnalyserConfig",
           "fetch", "mkdir", "fetchAnalyserTarball", "unpack", "install",
           "init_exists", "init_mkdir", "init_canWrite", "pending"}

(***************************************************************************)
(* Properties.                                                             *)
(***************************************************************************)
\* The step is taken by the call of caller k: it is issued, or one of its
\* handlers runs.
Acts(k) == call'[k] # call[k]

Issued(k) == call'[k].seq # call[k].seq

NoRequests == [list |-> 0, npm |-> 0, tarball |-> 0]

\* The pcs of a call inside _installAnalyser.
Pipeline == {"fetch", "mkdir", "fetchAnalyserTarball", "unpack", "install"}

Installing(c) ==
    \/ c.pc \in Pipeline
    \/ c.pc \in {"fetchList_rawgit", "fetchList_github"} /\ c.ret = "_installAnalyser"

Twice(j, k) ==
    /\ call[j].op = "installAnalyser" /\ call[k].op = "installAnalyser"
    /\ call[j].name = call[k].name
    /\ call[j].version = "none" /\ call[k].version = "none"
    /\ ~call[j].force /\ ~call[k].force
    /\ call[k].seq = call[j].seq + 1
    /\ call[j].pc = "resolved" /\ call[j].made
    /\ call[k].vti = call[j].vti

C3_ForceRecreatesDirectory ==
    \A k \in Callers :
        LET c == call[k]
            d == DirAt(dirs, pathToAnalyser(c.name, c.vti))
        IN  c.op = "installAnalyser" /\ c.force /\ c.sawDir /\ c.pc = "resolved"
            /\ (\A j \in Callers : call[j].seq <= c.seq)
            => /\ d.present
               /\ d.by = c.seq
               /\ ~d.marker
               /\ d.hooked

\* A forced installAnalyser has resolved on a directory that held a marker
\* file.
C3_Witness ==
    \E k \in Callers :
        LET c == call[k]
            d == DirAt(dirs, pathToAnalyser(c.name, c.vti))
        IN  /\ c.op = "installAnalyser" /\ c.force /\ c.sawDir
            /\ c.pc = "resolved"
            /\ d.present /\ ~d.marker /\ d.by = c.seq

\* The call was failed by its environment: a request or a file operation was
\* answered with an error, or the install hook failed.
EnvFailed(c) ==
    \/ c.pc = "uncaught"
    \/ c.res.err[1] \in {"Unable to fetch list of analysers", "ReferenceError",
                         "EACCES", "Unable to fetch tarball", "ENOENT", "unpack",
                         "exec"}
    \/ c.res.cause = "EACCES"

\* C4: no partial success, as claimed.  Whenever an installAnalyser call
\* resolves, the directory at the path it returns exists and is the product of
\* a pipeline that ran to completion (its install hook succeeded).
C4_NoPartialSuccess ==
    [][\A k \in Callers :
          /\ call'[k].op = "installAnalyser"
          /\ call'[k].pc = "resolved"
          /\ call[k].pc # "resolved"
          => LET d == DirAt(dirs', call'[k].res.path)
             IN  d.present /\ d.hooked]_vars

\* Callers j and k run installAnalyser without force for the same name and
\* the same concrete version, k's call was issued while j's was in flight,
\* and the directory existed when neither was issued.
Race(j, k) ==
    /\ call[j].op = "installAnalyser" /\ call[k].op = "installAnalyser"
    /\ call[j].name = call[k].name
    /\ call[j].version = call[k].version
    /\ call[j].version \notin {"none", "latest"}
    /\ ~call[j].force /\ ~call[k].force
    /\ call[j].seq < call[k].seq
    /\ call[k].conc
    /\ call[j].fresh /\ call[k].fresh

\* No call has removed the directory of j's and k's calls since either was
\* issued.
Undisturbed(j, k) ==
    LET d == DirAt(dirs, pathToAnalyser(call[j].name, call[j].version)) IN
    call[j].gen = d.removed /\ call[k].gen = d.removed

\* The call was refused the directory by mkdir because it exists.
MkdirRefused(c) ==
    /\ c.pc = "rejected"
    /\ c.res.err = <<"Unable to create analyser dir for analyser", c.name>>
    /\ c.res.cause = "EEXIST"

\* C5 as claimed: in every interleaving in which the environment fails
\* neither call, exactly one of the two creates the directory and resolves,
\* and the other rejects at directory creation.
C5_ExactlyOneWins ==
    \A j, k \in Callers :
        /\ Race(j, k)
        /\ call[j].pc \in Settled /\ call[k].pc \in Settled
        /\ ~EnvFailed(call[j]) /\ ~EnvFailed(call[k])
        => \E w, l \in {j, k} :
              /\ w # l
              /\ call[w].made /\ call[w].pc = "resolved"
              /\ ~call[l].made /\ MkdirRefused(call[l])

\* C5 amended: while no other call removes the directory, at most one of the
\* two calls creates it.  A call
\* resolves only as the creator or by finding the directory the other one
\* created (it then reads config.json instead of installing); a call that
\* neither created nor found the directory rejects at directory creation;
\* the creator resolves unless its environment fails it.
C5_AtMostOneCreates ==
    \A j, k \in Callers :
        Race(j, k) /\ Undisturbed(j, k)
        => /\ ~(call[j].made /\ call[k].made)
           /\ \A i \in {j, k} :
                LET c == call[i] IN
                /\ c.pc = "resolved" => c.made \/ c.sawDir
                /\ c.pc \in Settled /\ ~c.made /\ ~c.sawDir /\ ~EnvFailed(c)
                   => MkdirRefused(c)
                /\ c.pc \in Settled /\ c.made /\ ~EnvFailed(c) => c.pc = "resolved"
                /\ c.sawDir => ~c.made /\ ~Installing(c)

\* Both calls have settled: one created the directory and resolved, the other
\* was refused the directory by mkdir.
C5_Witness ==
    \E j, k \in Callers :
        /\ Race(j, k) /\ Undisturbed(j, k)
        /\ \E w, l \in {j, k} :
              /\ call[w].made /\ call[w].pc = "resolved"
              /\ MkdirRefused(call[l])
              /\ ~call[l].sawDir

Lifecycle == <<"downloading", "downloaded", "installing", "installed">>

\* The events the extractor of call c emitted, in order.
Emitted(c) == [i \in 1..Len(c.events) |-> c.events[i][1]]

\* C6: the events of an install attempt are a prefix of downloading,
\* downloaded, installing, installed; all four are emitted exactly when the
\* pipeline has resolved.
C6_LifecycleOrder ==
    \A k \in Callers :
        LET c == call[k]
            n == Len(c.events)
        IN  /\ n <= Len(Lifecycle)
            /\ Emitted(c) = SubSeq(Lifecycle, 1, n)
            /\ n = Len(Lifecycle) <=> (c.pc = "resolved" /\ c.made)
            /\ n > 0 => c.op = "installAnalyser"

\* One install has resolved with its four events, another has failed after
\* 'installing'.
C6_Witness ==
    \E j, k \in Callers :
        /\ Emitted(call[j]) = Lifecycle /\ call[j].pc = "resolved"
        /\ Emitted(call[k]) = SubSeq(Lifecycle, 1, 3) /\ call[k].pc = "rejected"

\* The handler that runs in this step for caller k emits event t tagged n.
Emits(k, t, n) ==
    /\ ~Issued(k)
    /\ Len(call'[k].events) = Len(call[k].events) + 1
    /\ LET e == call'[k].events[Len(call'[k].events)]
       IN  e[1] = t /\ e[2].analyser = n

\* C7: every event an extractor emits is seen exactly once on the manager,
\* under the name of the analyser its call installs, and the manager sees
\* nothing else.
C7_EventsProxiedByName ==
    [][/\ \A k \in Callers, t \in EventTypes, n \in Names :
             Emits(k, t, n) => n = call[k].name
       /\ \A t \in EventTypes, n \in Names :
             observed'[<<t, n>>] =
                observed[<<t, n>>] + Cardinality({k \in Callers : Emits(k, t, n)})]_vars

\* Installs of two different analysers are in flight and the manager has seen
\* events of both.
C7_Witness ==
    \E j, k \in Callers :
        /\ call[j].name # call[k].name
        /\ call[j].pc \in Pipeline /\ call[k].pc \in Pipeline
        /\ Len(call[j].events) >= 2 /\ Len(call[k].events) >= 2
        /\ observed[<<"downloaded", call[j].name>>] = 1
        /\ observed[<<"downloaded", call[k].name>>] = 1

UnknownInstall(c) == c.op = "installAnalyser" /\ c.name \notin KnownNames

UnknownError(c) == <<"UnknownAnalyserError", c.name>>

NothingCreated == \A p \in DirNames : dirs[p].present => dirs[p].by = 0

\* C8 as claimed: an installAnalyser of an unknown name that its environment
\* does not fail rejects with UnknownAnalyserError naming it, whatever the
\* version, force and install root.
C8_UnknownAlwaysRejected ==
    \A k \in Callers :
        LET c == call[k] IN
        UnknownInstall(c) /\ c.pc \in Settled /\ ~EnvFailed(c)
        => c.pc = "rejected" /\ c.res.err = UnknownError(c)

\* C8 amended: an installAnalyser of an unknown name creates no directory,
\* starts no download and emits no event.  It consults the list unless a
\* concrete version's directory exists and force is falsy, and once the list
\* is fetched it rejects with UnknownAnalyserError naming it.  It resolves
\* only in the excepted case, from the existing directory's config.json.
C8_UnknownNeverInstalled ==
    \A k \in Callers :
        LET c == call[k] IN
        UnknownInstall(c)
        => /\ NothingCreated
           /\ ~c.made /\ c.pc \notin Pipeline
           /\ c.events = <<>> /\ c.req.tarball = 0 /\ c.req.npm = 0
           /\ c.pc \in Settled /\ ~EnvFailed(c) /\ ~(c.sawDir /\ ~c.force)
              => c.pc = "rejected" /\ c.res.err = UnknownError(c)
           /\ c.pc \in Settled /\ c.req.list > 0
              => c.pc = "rejected"
                 /\ c.res.err \in {UnknownError(c),
                                   <<"Unable to fetch list of analysers", "">>}
           /\ c.pc = "resolved"
              => c.sawDir /\ ~c.force /\ c.version \notin {"none", "latest"}

\* A forced install of an unknown name found its directory, removed it and
\* rejected with UnknownAnalyserError.
C8_Witness ==
    \E k \in Callers :
        LET c == call[k] IN
        /\ UnknownInstall(c) /\ c.force /\ c.sawDir
        /\ c.pc = "rejected" /\ c.res.err = UnknownError(c)
        /\ ~DirAt(dirs, pathToAnalyser(c.name, c.vti)).present

\* The list requests the step sends for caller k.
ListRequestsSent(k) ==
    IF Issued(k) THEN call'[k].req.list
    ELSE call'[k].req.list - call[k].req.list

\* C9 as claimed: installAnalyser and isNewerVersionAvailable send a request
\* for the plugin list only while the cache is unpopulated.
C9_ListFetchedOnce ==
    [][\A k \in Callers :
          /\ call'[k].op \in {"installAnalyser", "isNewerVersionAvailable"}
          /\ ListRequestsSent(k) > 0
          => ALL_ANALYSERS = Null]_vars

\* C10: the cache is unpopulated or holds one complete list, and it is the
\* result of the list fetch that succeeded last.
C10_CacheIsLastResult ==
    /\ ALL_ANALYSERS \in ListRevs \cup {Null}
    /\ ALL_ANALYSERS = lastList
    /\ (\E k \in Callers : call[k].res.list # Null) => ALL_ANALYSERS # Null

\* Two concurrent fetchAnalyserList calls resolved with different lists, and
\* the cache holds the older revision: its answer came last.
C10_Witness ==
    \E j, k \in Callers :
        /\ call[j].op = "fetchAnalyserList" /\ call[k].op = "fetchAnalyserList"
        /\ call[k].conc
        /\ call[j].pc = "resolved" /\ call[k].pc = "resolved"
        /\ call[j].res.list = 2 /\ call[k].res.list = 1
        /\ ALL_ANALYSERS = 1

\* The call is installAnalyser with the version absent or "latest".
LatestInstall(c) == c.op = "installAnalyser" /\ c.version \in {"none", "latest"}

\* C11: an installAnalyser with version absent or "latest" installs the
\* version that was the registry's dist-tag latest when the call looked it up:
\* that concrete version is fixed by the lookup and kept, every directory the
\* call creates and the path it resolves with are {name}@{that version}, and
\* no directory {name}@latest exists at any time.
C11_LatestIsConcrete ==
    [][/\ \A k \in Callers :
             LatestInstall(call'[k]) /\ Acts(k) /\ ~Issued(k)
             => /\ call[k].vti = "none" /\ call'[k].vti # "none"
                   => /\ call[k].pc = "getLatestVersion"
                      /\ call'[k].vti = Published[npmLatest]
                /\ call[k].vti # "none" => call'[k].vti = call[k].vti
                /\ call'[k].vti # "none" => semver_valid(call'[k].vti)
                /\ \A p \in DirNames :
                      dirs'[p].present /\ ~dirs[p].present
                      => p = pathToAnalyser(call'[k].name, call'[k].vti)
                /\ call'[k].pc = "resolved"
                   => call'[k].res.path = pathToAnalyser(call'[k].name, call'[k].vti)
       /\ \A n \in Names : ~dirs'[<<n, "latest">>].present]_vars

\* An installAnalyser without a concrete version has resolved after it
\* created the directory of the version published last.
C11_Witness ==
    \E k \in Callers :
        LET c == call[k] IN
        /\ LatestInstall(c) /\ c.pc = "resolved" /\ c.made
        /\ c.vti = "1.0.5" /\ npmLatest = 2
        /\ c.res.path = <<c.name, "1.0.5">>
        /\ dirs[<<c.name, "1.0.5">>].present
        /\ dirs[<<c.name, "1.0.5">>].by = c.seq

\* C12: when the install hook fails the call rejects with the hook's error,
\* 'installed' is not emitted (neither by the extractor nor on the manager),
\* and the directory the attempt created is left as it is.
C12_HookFailureKeepsDirectory ==
    [][\A k \in Callers :
          call[k].pc = "install" /\ Acts(k) /\ ~Issued(k)
          => LET c == call'[k]
                 p == pathToAnalyser(c.name, c.vti)
             IN  \/ /\ c.pc = "resolved"
                    /\ Emitted(c) = Lifecycle
                 \/ /\ c.pc = "rejected"
                    /\ c.res.err = <<"exec", "">>
                    /\ Emitted(c) = SubSeq(Lifecycle, 1, 3)
                    /\ observed'[<<"installed", c.name>>]
                          = observed[<<"installed", c.name>>]
                    /\ dirs' = dirs
                    /\ dirs'[p].present /\ dirs'[p].by = c.seq]_vars

\* An install has rejected with the hook's error and its directory, still
\* holding the extracted package, is on disk.
C12_Witness ==
    \E k \in Callers :
        LET c == call[k]
            d == DirAt(dirs, pathToAnalyser(c.name, c.vti))
        IN  /\ c.op = "installAnalyser" /\ c.pc = "rejected"
            /\ c.res.err = <<"exec", "">>
            /\ d.present /\ d.by = c.seq /\ ~d.hooked

\* C13 as claimed: a validateAnalyserList call that has to fetch the list
\* eventually settles, by resolving with the known analysers or by rejecting.
C13_ValidateSettles ==
    \A k \in Callers :
        (call[k].op = "validateAnalyserList" /\ InFlight(call[k]))
        ~> (call[k].pc \in {"resolved", "rejected"})

\* C14 as claimed: every installAnalyser call eventually resolves or rejects.
C14_InstallSettles ==
    \A k \in Callers :
        (call[k].op = "installAnalyser" /\ InFlight(call[k]))
        ~> (call[k].pc \in {"resolved", "rejected"})

CreateError == "Unable to create sidekick analyser directory"

WriteError == "Unable to write to sidekick analyser directory"

ListError == "Unable to fetch list of analysers"

\* C15: a step in which an init call resolves leaves the install root present
\* and writable and the cache holding the list the call resolves with; an
\* init call ends resolved or rejected; and the only step of an init call
\* that writes the cache is the one in which it resolves.
C15_InitReady ==
    [][\A k \in Callers :
          call'[k].op = "init" /\ Acts(k) /\ ~Issued(k)
          => /\ call'[k].pc = "resolved"
                => /\ root'.exists /\ root'.writable
                   /\ ALL_ANALYSERS' # Null
                   /\ call'[k].res.list = ALL_ANALYSERS'
             /\ call'[k].pc \notin {"uncaught", "pending"}
             /\ call'[k].pc = "rejected" => call'[k].res.err[1] # "none"
             /\ (ALL_ANALYSERS' # ALL_ANALYSERS \/ lastList' # lastList)
                => call'[k].pc = "resolved"]_vars

\* An init has resolved after it created the missing root, and another has
\* rejected without having populated the cache.
C15_Witness ==
    \E j, k \in Callers :
        /\ call[j].op = "init" /\ call[j].pc = "resolved" /\ call[j].made
        /\ call[j].res.list = ALL_ANALYSERS
        /\ root = RootOk
        /\ call[k].op = "init" /\ call[k].pc = "rejected"
        /\ call[k].req.list = 2

\* C16 as claimed: init rejects with the root-create error only when mkdir
\* failed, with the root-unwritable error only when the root exists and is
\* not writable, and a failed list fetch is reported as neither.
C16_FailingStepReported ==
    \A k \in Callers :
        LET c == call[k] IN
        c.op = "init" /\ c.pc = "rejected"
        => /\ c.res.err[1] = CreateError
              => ~c.made /\ c.res.cause \in {"EACCES", "EEXIST"}
           /\ c.res.err[1] = WriteError => root.exists /\ ~root.writable
           /\ c.req.list > 0 => c.res.err[1] = ListError

\* The step issues fetchCanonicalAnalyserConfig for caller k.
IssuesCanonical(k) ==
    Issued(k) /\ call'[k].op = "fetchCanonicalAnalyserConfig"

\* C17: fetchCanonicalAnalyserConfig called with the cache populated sends no
\* request and settles at once with the cache's entry for the name, or with
\* the rejection "Unknown analyser" naming it; called with the cache
\* unpopulated it requests the list first.  Whenever it resolves, the name is
\* in the list and the entry is the one the cache then holds; for a name the
\* list lacks it never resolves.
C17_CanonicalIsCacheFirst ==
    [][\A k \in Callers :
          LET c == call'[k] IN
          /\ IssuesCanonical(k) /\ ALL_ANALYSERS # Null
             => /\ c.req = NoRequests
                /\ c.pc \in {"resolved", "rejected"}
                /\ ALL_ANALYSERS' = ALL_ANALYSERS
          /\ IssuesCanonical(k) /\ ALL_ANALYSERS = Null
             => c.pc = "fetchList_rawgit" /\ c.req.list = 1
          /\ c.op = "fetchCanonicalAnalyserConfig" /\ Acts(k)
             => /\ c.pc = "resolved"
                   => /\ c.name \in KnownNames
                      /\ ALL_ANALYSERS' # Null
                      /\ c.res.config = AnalyserList(ALL_ANALYSERS')[c.name].config
                      /\ c.res.registry = AnalyserList(ALL_ANALYSERS')[c.name].registry
                /\ c.pc = "rejected"
                   => \/ c.res.err = <<"Unknown analyser", c.name>>
                         /\ c.name \notin KnownNames /\ ALL_ANALYSERS' # Null
                      \/ c.res.err = <<ListError, "">> /\ c.req.list = 2
                /\ c.pc \notin {"uncaught", "pending"}]_vars

\* Of two fetchCanonicalAnalyserConfig calls, one has fetched the list and
\* resolved, the other has been answered from the cache without a request:
\* it rejected for a name the list lacks.
C17_Witness ==
    \E j, k \in Callers :
        /\ call[j].op = "fetchCanonicalAnalyserConfig" /\ call[j].pc = "resolved"
        /\ call[j].req.list > 0
        /\ call[k].op = "fetchCanonicalAnalyserConfig" /\ call[k].pc = "rejected"
        /\ call[k].req = NoRequests
        /\ call[k].res.err = <<"Unknown analyser", call[k].name>>

\* Caller k's call is the one issued last.
Latest(k) == \A j \in Callers : call[j].seq <= call[k].seq

FetchError(c) == <<"Unable to fetch config for analyser", c.name>>

\* C18: a fetchAnalyser for a directory {name}@{version} that holds a valid
\* config.json, unless the file system refuses the call, resolves with the
\* path of that directory and the config parsed from its config.json, and has
\* sent no request.
C18_FetchReturnsDiskConfig ==
    \A k \in Callers :
        LET c == call[k]
            d == DirAt(dirs, pathToAnalyser(c.name, c.version))
        IN  /\ c.op = "fetchAnalyser" /\ Latest(k)
            /\ d.present /\ d.config = "ok"
            => /\ c.req = NoRequests
               /\ c.pc \in Settled /\ ~EnvFailed(c)
                  => /\ c.pc = "resolved"
                     /\ c.res.path = pathToAnalyser(c.name, c.version)
                     /\ c.res.config = DiskConfig(c.name)

\* A fetchAnalyser has resolved with the config.json of a directory an
\* install of this session created, with the cache populated.
C18_Witness ==
    \E k \in Callers :
        LET c == call[k]
            d == DirAt(dirs, pathToAnalyser(c.name, c.version))
        IN  /\ c.op = "fetchAnalyser" /\ c.pc = "resolved"
            /\ d.present /\ d.by > 0 /\ d.config = "ok"
            /\ c.res.config = DiskConfig(c.name)
            /\ c.req = NoRequests

\* C19 as claimed: a fetchAnalyser(name, version) issued right after an
\* installAnalyser({name, version}) that resolved, which the file system does
\* not refuse, resolves with the path the install returned.
C19_FetchAfterInstall ==
    \A j, k \in Callers :
        /\ call[j].op = "installAnalyser" /\ call[j].pc = "resolved"
        /\ call[j].version \notin {"none", "latest"}
        /\ call[k].op = "fetchAnalyser"
        /\ call[k].name = call[j].name /\ call[k].version = call[j].version
        /\ call[k].seq = call[j].seq + 1
        /\ call[k].pc \in Settled /\ ~EnvFailed(call[k])
        => /\ call[k].pc = "resolved"
           /\ call[k].res.path = call[j].res.path

InstalledVersions(name) ==
    IF ~root.exists THEN {}
    ELSE {p[2] : p \in {q \in DOMAIN dirs :
                          /\ isDirectory(dirs[q])
                          /\ reTest(name, q)
                          /\ semver_valid(q[2])}}

\* C21 as claimed: getLatestVersionOfInstalledAnalyser returns the greatest,
\* in semantic-version order, of the valid versions installed for the name.
C21_LatestInstalledIsSemverMax ==
    \A k \in Callers :
        LET c == call[k]
            vs == InstalledVersions(c.name)
        IN  c.op = "getLatestVersionOfInstalledAnalyser" /\ vs # {}
            => /\ c.res.latest \in vs
               /\ \A w \in vs : ~semver_lt(c.res.latest, w)

\* C22 as claimed: getLatestVersionOfInstalledAnalyser returns null when no
\* valid version of the name is installed.
C22_NullWhenNoneInstalled ==
    \A k \in Callers :
        LET c == call[k] IN
        c.op = "getLatestVersionOfInstalledAnalyser"
        /\ InstalledVersions(c.name) = {}
        => c.res.latest = "null"

\* The handler of the registry's answer runs for caller k's
\* isNewerVersionAvailable call.
AnswersNewer(k) ==
    /\ call[k].op = "isNewerVersionAvailable"
    /\ call[k].pc = "getLatestVersion"
    /\ Acts(k) /\ ~Issued(k)

\* The version as one number: major, minor and patch as digits in base 100.
Weight(v) ==
    semver_parse(v)[1] * 10000 + semver_parse(v)[2] * 100 + semver_parse(v)[3]

\* C23: isNewerVersionAvailable with a valid current version, when it
\* resolves, returns the registry's latest version and newer = true exactly
\* when current is strictly older than it: false for an equal and for a
\* greater current version.
C23_NewerIsStrictlyOlder ==
    [][\A k \in Callers :
          AnswersNewer(k) /\ semver_valid(call[k].version)
          /\ call'[k].pc = "resolved"
          => /\ call'[k].res.latest = Published[npmLatest]
             /\ call'[k].res.newer =
                   IF Weight(call[k].version) < Weight(Published[npmLatest])
                   THEN "true" ELSE "false"]_vars

\* A version check of 1.10.0 against the latest 1.0.5 has answered that no
\* newer version exists.
C23_Witness ==
    \E k \in Callers :
        LET c == call[k] IN
        /\ c.op = "isNewerVersionAvailable" /\ c.pc = "resolved"
        /\ c.version = "1.10.0" /\ c.res.latest = "1.0.5"
        /\ c.res.newer = "false"

\* C24: the handler of the registry's answer settles the version check.
\* When the registry names a valid latest version the check resolves with it,
\* and without a newer field when the current version is invalid or absent.
\* When the latest version the registry names is not a valid version the
\* check rejects with the invalid-version error, whatever the current version.
C24_GarbageCurrentTolerated ==
    [][\A k \in Callers :
          AnswersNewer(k)
          => LET c == call'[k]
                 latest == latestOf(c.answer)
             IN  /\ c.pc \in {"resolved", "rejected"}
                 /\ c.answer # "error" /\ semver_valid(latest)
                    => /\ c.pc = "resolved"
                       /\ c.res.latest = latest
                       /\ ~semver_valid(c.version) => c.res.newer = "absent"
                       /\ semver_valid(c.version)
                          => c.res.newer \in {"true", "false"}
                 /\ c.answer # "error" /\ ~semver_valid(latest)
                    => /\ c.pc = "rejected"
                       /\ c.res.err = <<"Invalid version", c.name>>]_vars

\* A version check with a garbage current version has resolved with the
\* latest version alone.
C24_Witness ==
    \E k \in Callers :
        LET c == call[k] IN
        /\ c.op = "isNewerVersionAvailable" /\ c.pc = "resolved"
        /\ c.version = "garbage" /\ c.answer = "ok"
        /\ c.res.latest = "1.0.5" /\ c.res.newer = "absent"

\* C25: an isNewerVersionAvailable for a name the list lacks sends no request
\* to the package registry and never resolves; once the list is fetched it
\* rejects with UnknownAnalyserError naming it, whatever the version.
C25_UnknownNeverAsksRegistry ==
    \A k \in Callers :
        LET c == call[k] IN
        c.op = "isNewerVersionAvailable" /\ c.name \notin KnownNames
        => /\ c.req.npm = 0
           /\ c.pc \in {"fetchList_rawgit", "fetchList_github", "rejected"}
           /\ c.pc = "rejected"
              => c.res.err \in {UnknownError(c), <<ListError, "">>}
           /\ c.pc = "rejected" /\ c.req.list = 1 => c.res.err = UnknownError(c)

\* A version check of an unknown name, with a garbage version, has rejected
\* with UnknownAnalyserError.
C25_Witness ==
    \E k \in Callers :
        LET c == call[k] IN
        /\ c.op = "isNewerVersionAvailable" /\ c.name \notin KnownNames
        /\ c.version = "garbage"
        /\ c.pc = "rejected" /\ c.res.err = UnknownError(c)
        /\ ALL_ANALYSERS # Null

\* The entries of analysers whose name is a key of the list of revision r.
KnownOf(analysers, r) ==
    SelectSeq(analysers, LAMBDA n : n \in DOMAIN AnalyserList(r))

\* C26: validateAnalyserList never rejects; it resolves with the requested
\* entries whose name is a key of the analyser list, in their order, entries
\* with an unknown name or with no name dropped; and called with the cache
\* populated it resolves at once, without a request.
C26_ValidateFilters ==
    [][\A k \in Callers :
          call'[k] # call[k] /\ call'[k].op = "validateAnalyserList"
          => LET c == call'[k] IN
             /\ c.pc # "rejected"
             /\ c.pc = "resolved"
                => c.res.valid = KnownOf(c.analysers, ALL_ANALYSERS')
             /\ c.seq # call[k].seq /\ ALL_ANALYSERS # Null
                => c.pc = "resolved" /\ c.req = NoRequests]_vars

\* A validateAnalyserList on a populated cache has dropped the unknown name
\* from between two known ones, and sent no request.
C26_Witness ==
    \E k \in Callers :
        LET c == call[k] IN
        /\ c.op = "validateAnalyserList" /\ c.pc = "resolved"
        /\ c.analysers = <<"sidekick-eslint", "rubbish-subbish-analyser",
                           "sidekick-david">>
        /\ c.res.valid = <<"sidekick-eslint", "sidekick-david">>
        /\ c.req = NoRequests

\* C27: when the registry answers the metadata request of an install and has
\* no such version, the install rejects with the invalid-version error in
\* that step: the call has created no directory and requested no tarball, and
\* the step leaves the install root as it was.
C27_AbsentVersionRejectsEarly ==
    [][\A k \in Callers :
          /\ call[k].pc = "fetch" /\ call'[k] # call[k]
          /\ call'[k].answer = "ok"
          /\ call[k].vti \notin NpmInfo.versions
          => LET c == call'[k] IN
             /\ c.pc = "rejected"
             /\ c.res.err = <<"Invalid version for analyser", c.name>>
             /\ ~c.made /\ c.req.tarball = 0
             /\ dirs' = dirs]_vars

\* An install of 1.0.5, which the registry does not have yet, was rejected
\* with the invalid-version error, and no directory for it exists.
C27_Witness ==
    \E k \in Callers :
        LET c == call[k] IN
        /\ c.op = "installAnalyser" /\ c.version = "1.0.5"
        /\ c.pc = "rejected" /\ c.answer = "ok"
        /\ c.res.err = <<"Invalid version for analyser", c.name>>
        /\ "1.0.5" \notin NpmInfo.versions
        /\ ~DirAt(dirs, pathToAnalyser(c.name, "1.0.5")).present

\* C28: when the request for the package metadata fails, the install or the
\* version check that sent it rejects with the error of the registry fetch
\* for that analyser, which carries the cause of the failure.
C28_RegistryFailureReported ==
    [][\A k \in Callers :
          /\ call[k].pc \in {"getLatestVersion", "fetch"}
          /\ call'[k] # call[k]
          /\ call'[k].answer = "error"
          => LET c == call'[k] IN
             /\ c.pc = "rejected"
             /\ c.res.err = <<"Unable to fetch analyser info for", c.name>>
             /\ c.res.cause # "none"]_vars

ReadError(c) == <<"Unable to read config file for analyser", c.name>>

ParseError(c) == <<"Unable to parse config file for analyser", c.name>>

\* C29: when config.json of an existing directory {name}@{version} is read,
\* the call rejects with the read error if the file is missing and with the
\* parse error if it does not parse; it resolves with no config in either
\* case.
C29_BadConfigRejects ==
    [][\A k \in Callers :
          LET d == DirAt(dirs, pathToAnalyser(call[k].name, call[k].vti))
              c == call'[k]
          IN  /\ call[k].pc = "readAnalyserConfig" /\ c # call[k]
              /\ d.present /\ d.config # "ok"
              => /\ c.pc = "rejected"
                 /\ c.res.config = NoConfig /\ c.res.path = NoPath
                 /\ d.config = "none" => c.res.err = ReadError(c)
                 /\ d.config = "bad" => c.res.err = ParseError(c)]_vars

\* A fetchAnalyser of a directory whose config.json does not parse was
\* rejected with the parse error.
C29_Witness ==
    \E k \in Callers :
        LET c == call[k]
            d == DirAt(dirs, pathToAnalyser(c.name, c.version))
        IN  /\ c.op = "fetchAnalyser" /\ c.pc = "rejected"
            /\ d.present /\ d.config = "bad"
            /\ c.res.err = ParseError(c)

\* C30: an installAnalyser that created the directory, where none was or in
\* place of the one it removed with force, resolves with the path of the
\* directory and with the config of the analyser's entry in the central
\* list, not with the config.json of the directory.
C30_FreshInstallReturnsListConfig ==
    \A k \in Callers :
        LET c == call[k] IN
        c.op = "installAnalyser" /\ c.pc = "resolved" /\ c.made
        => /\ c.res.path = pathToAnalyser(c.name, c.vti)
           /\ \E r \in ListRevs :
                 c.res.config = AnalyserList(r)[c.name].config
           /\ c.res.config # DiskConfig(c.name)

\* A forced install over an existing directory has resolved with the list's
\* config, the new directory holding no config.json.
C30_Witness ==
    \E k \in Callers :
        LET c == call[k]
            d == DirAt(dirs, pathToAnalyser(c.name, c.vti))
        IN  /\ c.op = "installAnalyser" /\ c.pc = "resolved"
            /\ c.force /\ ~c.fresh /\ c.made
            /\ d.present /\ d.by = c.seq /\ d.config = "none"
            /\ c.res.config.source = "registry"

\* The names a configuration refers to.
ReferredNames(repoConfig) ==
    {ConfigObjects[o].name :
        o \in UNION {UNION {{cat[r] : r \in DOMAIN cat} :
                                cat \in {lang[j] : j \in DOMAIN lang}} :
                        lang \in {repoConfig[i] : i \in DOMAIN repoConfig}}}

\* C31 as claimed: getAllAnalysersForConfig returns one entry for each
\* analyser the configuration refers to, under however many languages and
\* categories, and the entry carries the analyser's name.
C31_EachAnalyserOnce ==
    \A k \in Callers :
        LET c == call[k]
            r == c.res.easy
        IN  c.op = "getAllAnalysersForConfig" /\ c.pc = "resolved"
            => /\ {r[i].name : i \in DOMAIN r} = ReferredNames(c.repoConfig)
               /\ \A i, j \in DOMAIN r : r[i].name = r[j].name => i = j

\* The install root without the entries whose name is not the given one.
OnlyNamed(fs, name) ==
    [p \in DOMAIN fs |-> IF p[1] = name THEN fs[p] ELSE Absent]

\* C32 as claimed: getLatestVersionOfInstalledAnalyser(name) returns what it
\* returns on the install root with only the directories named {name}@...:
\* the entries of any other name do not influence the result.
C32_OtherNamesIgnored ==
    \A k \in Callers :
        LET c == call[k] IN
        c.op = "getLatestVersionOfInstalledAnalyser"
        => c.res.latest = latestInstalled(root, OnlyNamed(dirs, c.name), c.name)

LastEvent(c) == IF c.events = <<>> THEN "none" ELSE c.events[Len(c.events)][1]

\* C33: when the package has been extracted and its tarball could not be
\* deleted, the install goes on to the install hook; and when the hook then
\* succeeds with the tarball still in the directory, the install resolves
\* and 'installed' is emitted.
C33_UnlinkFailureNotFatal ==
    [][\A k \in Callers :
          LET c == call[k]
              p == pathToAnalyser(c.name, c.vti)
          IN  call'[k] # c /\ p \in DOMAIN dirs
              => /\ c.pc = "unpack" /\ dirs'[p].unpacked /\ dirs'[p].tgz
                    => /\ call'[k].pc = "install"
                       /\ LastEvent(call'[k]) = "installing"
                 /\ /\ c.pc = "install" /\ dirs[p].tgz
                    /\ ~dirs[p].hooked /\ dirs'[p].hooked
                    => /\ call'[k].pc = "resolved"
                       /\ LastEvent(call'[k]) = "installed"
                       /\ observed'[<<"installed", c.name>>]
                             = observed[<<"installed", c.name>>] + 1]_vars

\* An install has resolved and emitted 'installed' with the tarball left in
\* the directory it created.
C33_Witness ==
    \E k \in Callers :
        LET c == call[k]
            d == DirAt(dirs, pathToAnalyser(c.name, c.vti))
        IN  /\ c.op = "installAnalyser" /\ c.pc = "resolved"
            /\ d.present /\ d.by = c.seq /\ d.unpacked /\ d.tgz /\ d.hooked
            /\ LastEvent(c) = "installed"

\* The rejections of _installAnalyser before the extractor creates the
\* directory: unknown analyser, failed list fetch, failed metadata request,
\* version absent from the registry.
BeforeMkdir ==
    {"UnknownAnalyserError", "Unable to fetch list of analysers",
     "ReferenceError", "Invalid version for analyser"}

\* C34: when an installAnalyser with force for a directory {name}@{version}
\* that existed is rejected before the directory is created again, because
\* the analyser is unknown, the list or the metadata could not be fetched or
\* the registry has no such version, no directory {name}@{version} exists.
C34_ForcedFailureLeavesNoDir ==
    \A k \in Callers :
        LET c == call[k] IN
        /\ c.op = "installAnalyser" /\ c.force /\ ~c.fresh
        /\ c.pc = "rejected" /\ c.res.err[1] \in BeforeMkdir
        => /\ ~c.made
           /\ ~DirAt(dirs, pathToAnalyser(c.name, c.version)).present

\* A forced install over the existing directory of an analyser the list does
\* not know was rejected, and the directory is gone.
C34_Witness ==
    \E k \in Callers :
        LET c == call[k]
            d == DirAt(dirs, pathToAnalyser(c.name, c.version))
        IN  /\ c.op = "installAnalyser" /\ c.force /\ ~c.fresh
            /\ c.pc = "rejected" /\ c.res.err[1] = "UnknownAnalyserError"
            /\ ~d.present /\ d.removed = c.gen + 1

\* The install of caller k has created its directory and is populating it.
Populating(k) ==
    LET c == call[k]
        p == pathToAnalyser(c.name, c.vti)
    IN  /\ c.op = "installAnalyser" /\ c.made
        /\ c.pc \in {"fetchAnalyserTarball", "unpack", "install"}
        /\ p \in DOMAIN dirs
        /\ dirs[p].present /\ dirs[p].by = c.seq

\* The directory of caller k's install is still there after the step.
Kept(k) ==
    LET c == call[k]
        p == pathToAnalyser(c.name, c.vti)
    IN  dirs'[p].present /\ dirs'[p].by = c.seq

\* C35 as claimed: no step removes a directory that an in-flight install
\* created and is populating.
C35_PopulatingDirNeverRemoved ==
    [][\A k \in Callers : Populating(k) => Kept(k)]_vars

\* C35 amended: a directory that an in-flight install created and is
\* populating is removed only by the remove of another installAnalyser call
\* for the same name and version that was made with force and found a
\* directory at the path; a call made without force never removes it.
C35_OnlyForceRemoves ==
    [][\A k \in Callers :
          Populating(k) /\ ~Kept(k)
          => \E j \in Callers \ {k} :
                /\ Acts(j)
                /\ call[j].op = "installAnalyser" /\ call[j].pc = "remove"
                /\ call[j].force /\ call[j].sawDir
                /\ call[j].name = call[k].name /\ call[j].vti = call[k].vti]_vars

\* While an install is populating the directory it created, a concurrent
\* install of the same name and version without force has found the
\* directory and settled, and the directory is still there.
C35_Witness ==
    \E j, k \in Callers :
        /\ j # k /\ Populating(k)
        /\ call[j].op = "installAnalyser" /\ ~call[j].force
        /\ call[j].name = call[k].name /\ call[j].vti = call[k].vti
        /\ call[j].seq > call[k].seq /\ call[j].conc
        /\ call[j].sawDir /\ call[j].pc \in Settled

\* The list fetch of caller k's call fails in this step: its fallback request
\* is answered with a failure.
ListFetchFails(k) ==
    /\ Acts(k) /\ call[k].pc = "fetchList_github"
    /\ \/ call'[k].pc = "pending"
       \/ /\ call'[k].pc = "rejected"
          /\ "Unable to fetch list of analysers"
                \in {call'[k].res.err[1], call'[k].res.cause}

\* C36: the cache is monotone.  A step in which a list fetch fails leaves
\* ALL_ANALYSERS as it was; a populated ALL_ANALYSERS is never unpopulated
\* again; and ALL_ANALYSERS changes only when a list request is answered
\* with a list, to that list.
C36_CacheMonotone ==
    [][/\ \A k \in Callers : ListFetchFails(k) => ALL_ANALYSERS' = ALL_ANALYSERS
       /\ ALL_ANALYSERS # Null => ALL_ANALYSERS' # Null
       /\ ALL_ANALYSERS' # ALL_ANALYSERS
          => /\ ALL_ANALYSERS' = lastList' /\ lastList' # Null
             /\ \E k \in Callers :
                   /\ Acts(k)
                   /\ call[k].pc \in {"fetchList_rawgit", "fetchList_github"}]_vars

\* A list fetch has failed on a populated cache, which is still populated.
C36_Witness ==
    /\ ALL_ANALYSERS # Null
    /\ \E k \in Callers :
          /\ call[k].op = "fetchAnalyserList" /\ call[k].pc = "rejected"
          /\ call[k].res.err[1] = "Unable to fetch list of analysers"
          /\ call[k].req.list = 2 /\ ~call[k].conc /\ call[k].seq = 2

\* C37: a fetchAnalyserList call first requests the list at the primary URL.
\* When that request is answered with a list the call resolves with it, the
\* fallback URL not requested; when it fails the call requests the fallback
\* URL, and resolves with its list or, when that request fails too, rejects.
\* A call sends at most two list requests.
C37_PrimaryThenFallback ==
    [][\A k \in Callers :
          Acts(k) /\ call'[k].op = "fetchAnalyserList"
          => LET c == call[k]
                 d == call'[k]
             IN  /\ Issued(k) => d.pc = "fetchList_rawgit" /\ d.req.list = 1
                 /\ ~Issued(k) /\ c.pc = "fetchList_rawgit"
                    => \/ /\ d.pc = "resolved" /\ d.req.list = 1
                          /\ d.res.list \in RawgitAnswers \ {Null}
                          /\ d.res.list = lastList'
                       \/ d.pc = "fetchList_github" /\ d.req.list = 2
                 /\ ~Issued(k) /\ c.pc = "fetchList_github"
                    => /\ d.req.list = 2
                       /\ \/ /\ d.pc = "resolved"
                             /\ d.res.list \in GithubAnswers \ {Null}
                             /\ d.res.list = lastList'
                          \/ /\ d.pc = "rejected"
                             /\ d.res.err[1] = ListError
                 /\ ~Issued(k)
                    => c.pc \in {"fetchList_rawgit", "fetchList_github"}]_vars

\* A fetchAnalyserList call has resolved with the list of the fallback URL,
\* after two requests.
C37_Witness ==
    \E k \in Callers :
        /\ call[k].op = "fetchAnalyserList" /\ call[k].pc = "resolved"
        /\ call[k].req.list = 2
        /\ call[k].res.list \in GithubAnswers \ RawgitAnswers

\* C38: no step of an isNewerVersionAvailable call, from its issue to its
\* settling, changes the install root or a directory in it, and none emits an
\* event, on the extractor or on the manager.
C38_VersionCheckReadOnly ==
    [][\A k \in Callers :
          Acts(k) /\ call'[k].op = "isNewerVersionAvailable"
          => /\ dirs' = dirs /\ root' = root
             /\ observed' = observed
             /\ call'[k].events = <<>>
             /\ ~call'[k].made]_vars

\* An isNewerVersionAvailable has resolved over an install root that holds a
\* directory of the analyser, which is as it was left.
C38_Witness ==
    \E k \in Callers :
        LET c == call[k] IN
        /\ c.op = "isNewerVersionAvailable" /\ c.pc = "resolved"
        /\ c.res.newer = "true"
        /\ DirAt(dirs, pathToAnalyser(c.name, c.version)) = Installed
        /\ c.events = <<>>
        /\ \A e \in DOMAIN observed : observed[e] = 0

\* Caller k's call is an init issued after the init of another caller had
\* resolved, with no call in flight.
AfterInit(c) ==
    /\ c.op = "init" /\ ~c.conc
    /\ \E j \in Callers :
          /\ call[j].op = "init" /\ call[j].pc = "resolved"
          /\ call[j].seq < c.seq

====
